---- MODULE Spec2Model ----
(***************************************************************************)
(* PydanticAIQueryIntentExtractor (src/pydanticAIExtractor.py): one call   *)
(* of extract_query_intent, step by step: the model call, the extraction   *)
(* of JSON from the response text, the max_files clamp, the content and    *)
(* filename heuristics, the QueryIntent validation and the three return    *)
(* paths (normal result, default intent, non-dataset override).            *)
(***************************************************************************)
EXTENDS Integers, Sequences, FiniteSets, TLC

VARIABLES
    pc,              \* where the call stands
    query,           \* the query of the call
    response,        \* what messages.create did: the text returned, or the exception
    extracted_json,  \* extracted_json, as the clamp and the heuristics rewrite it
    intent,          \* the validated QueryIntent
    raised,          \* the statement of the try block that raised, if any
    result,          \* the mapping returned to the caller
    \* two calls of extract_query_intent on one extractor, interleaved
    calls,           \* the local variables of each call
    heap,            \* the objects the calls allocated, by reference
    \* create_youtube_short (src/youtube_short_maker/agent.py)
    short_pc,        \* where the pipeline stands
    short_args,      \* the arguments of the call
    results,         \* results: {"pipeline_steps": [...]}
    processed_video, \* video_result["output_path"]
    audio_file,      \* audio_result["audio_path"]
    final_video,     \* combine_result["output_path"]
    invoked,         \* the steps invoked so far, with the status each returned
    short_result,    \* the record returned to the caller
    \* send_to_telegram (src/email_summary_agent/agent.py)
    telegram_pc,     \* where the call stands
    message,         \* the argument of the call
    bot_token,       \* os.getenv('TELEGRAM_BOT_TOKEN')
    chat_id,         \* os.getenv('TELEGRAM_CHAT_ID')
    telegram_response, \* response: what the first POST returned
    posts,           \* the POST requests made so far, with what each did
    telegram_result, \* the record returned to the caller
    \* check_and_send_email_summary (src/email_summary_agent/agent.py)
    email_pc,        \* where the call stands
    emails_result,   \* what get_unread_emails returned
    telegram_summary, \* what create_telegram_safe_summary returned
    email_result     \* the record returned to the caller

extractorVars == <<pc, query, response, extracted_json, intent, raised, result>>
concurrentVars == <<calls, heap>>
shortVars == <<short_pc, short_args, results, processed_video, audio_file, final_video,
               invoked, short_result>>
telegramVars == <<telegram_pc, message, bot_token, chat_id, telegram_response, posts,
                  telegram_result>>
emailVars == <<email_pc, emails_result, telegram_summary, email_result>>
vars == <<extractorVars, concurrentVars, shortVars, telegramVars, emailVars>>

\* what the actions of one program leave alone: the variables of the others
notExtractor == <<concurrentVars, shortVars, telegramVars, emailVars>>
notConcurrent == <<extractorVars, shortVars, telegramVars, emailVars>>
notShort == <<extractorVars, concurrentVars, telegramVars, emailVars>>
notTelegram == <<extractorVars, concurrentVars, shortVars, emailVars>>
\* check_and_send_email_summary calls send_to_telegram and so moves its variables
notEmail == <<extractorVars, concurrentVars, shortVars>>

(***************************************************************************)
(* Text.  A Python str is a sequence of pieces whose concatenation is the  *)
(* text.  Query text and every keyword are written one character per       *)
(* piece, so that substring tests and the regular expressions work on      *)
(* characters; a fixed message is written as one piece.  The empty str is  *)
(* the empty sequence.                                                     *)
(***************************************************************************)
UpperChars == <<"A","B","C","D","E","F","G","H","I","J","K","L","M",
                "N","O","P","Q","R","S","T","U","V","W","X","Y","Z">>
LowerChars == <<"a","b","c","d","e","f","g","h","i","j","k","l","m",
                "n","o","p","q","r","s","t","u","v","w","x","y","z">>
Digits == {"0","1","2","3","4","5","6","7","8","9"}

\* str.lower(), one character
LowerChar(ch) ==
    IF \E i \in 1..26 : UpperChars[i] = ch
    THEN LowerChars[CHOOSE i \in 1..26 : UpperChars[i] = ch]
    ELSE ch

\* str.lower()
Lower(s) == [i \in 1..Len(s) |-> LowerChar(s[i])]

\* the text s has the literal w at position i
LitAt(s, i, w) ==
    /\ i >= 1
    /\ i + Len(w) - 1 <= Len(s)
    /\ \A k \in 1..Len(w) : s[i + k - 1] = w[k]

\* Python's  w in s  on two strs
Contains(s, w) == \E i \in 1..(Len(s) + 1) : LitAt(s, i, w)

\* any(k in s for k in keywords)
ContainsAny(s, keywords) == \E k \in keywords : Contains(s, k)

\* the regular expression classes the patterns use
IsSpace(ch) == ch \in {" ", "\t", "\n", "\r", "\f"}
IsWord(ch) == ch \in Digits \/ ch = "_" \/ \E i \in 1..26 : ch \in {UpperChars[i], LowerChars[i]}
\* [^\s.,]
IsNameChar(ch) == ~IsSpace(ch) /\ ch # "." /\ ch # ","
\* [\w\s\-.,]
IsTellChar(ch) == IsWord(ch) \/ IsSpace(ch) \/ ch \in {"-", ".", ","}

\* the end of a greedy \s* from position i: the first position that holds no space
RECURSIVE SkipSpace(_, _)
SkipSpace(s, i) == IF i <= Len(s) /\ IsSpace(s[i]) THEN SkipSpace(s, i + 1) ELSE i

\* the end of a greedy [^\s.,]* from position i
RECURSIVE SkipName(_, _)
SkipName(s, i) == IF i <= Len(s) /\ IsNameChar(s[i]) THEN SkipName(s, i + 1) ELSE i

\* the result of a failed match, and of a match with capture group 1
NoMatch == [matched |-> FALSE]
Match(g) == [matched |-> TRUE, group1 |-> g]

\* \s+([^\s.,]+) from position i: the capture, when both parts are non-empty
SpaceThenName(s, i) ==
    LET j == SkipSpace(s, i)
        e == SkipName(s, j)
    IN  IF j > i /\ e > j THEN Match(SubSeq(s, j, e - 1)) ELSE NoMatch

(***************************************************************************)
(* The keyword lists and regular expressions of                            *)
(* _apply_content_request_heuristics.                                      *)
(***************************************************************************)
content_keywords == {
    <<"c","o","n","t","e","n","t">>,
    <<"t","e","x","t">>,
    <<"d","o","c","u","m","e","n","t">>,
    <<"w","h","a","t","'","s"," ","i","n">>,
    <<"w","h","a","t"," ","i","s"," ","i","n">>}
action_keywords == {
    <<"d","i","s","p","l","a","y">>,
    <<"s","h","o","w">>,
    <<"v","i","e","w">>,
    <<"s","u","m","m","a","r","i","z","e">>,
    <<"r","e","a","d">>,
    <<"g","e","t">>,
    <<"e","x","t","r","a","c","t">>,
    <<"t","e","l","l"," ","m","e"," ","a","b","o","u","t">>,
    <<"t","e","l","l"," ","a","b","o","u","t">>}
file_extensions == {
    <<".","p","d","f">>,
    <<".","d","o","c","x">>,
    <<".","t","x","t">>,
    <<".","x","l","s","x">>}
full_content_indicators == {
    <<"f","u","l","l"," ","c","o","n","t","e","n","t">>,
    <<"c","o","m","p","l","e","t","e"," ","t","e","x","t">>,
    <<"e","n","t","i","r","e"," ","c","o","n","t","e","n","t">>,
    <<"f","u","l","l"," ","t","e","x","t">>,
    <<"v","e","r","b","a","t","i","m">>}
kw_file == <<"f","i","l","e">>
kw_filename == <<"f","i","l","e","n","a","m","e">>
kw_tell == <<"t","e","l","l">>
kw_me == <<"m","e">>
kw_about == <<"a","b","o","u","t">>
kw_that == <<"t","h","a","t">>
kw_contains == <<"c","o","n","t","a","i","n","s">>
kw_named == <<"n","a","m","e","d">>
\* (?:pdf|docx|txt|xlsx) of the tell-about pattern
tell_extensions == {
    <<"p","d","f">>,
    <<"d","o","c","x">>,
    <<"t","x","t">>,
    <<"x","l","s","x">>}
\* (?:pdf|csv|txt|xlsx|docx|html) of the fourth filename pattern
filename_extensions == {
    <<"p","d","f">>,
    <<"c","s","v">>,
    <<"t","x","t">>,
    <<"x","l","s","x">>,
    <<"d","o","c","x">>,
    <<"h","t","m","l">>}

\* tell\s+(?:me\s+)?about\s+([\w\s\-.,]+\.(?:pdf|docx|txt|xlsx)) at position i.
\* Only whether it matches is used.  After "about" comes at least one space,
\* then a non-empty run of [\w\s\-.,], then a dot and an extension; the run
\* may itself hold spaces and dots, so any split will do.
TellAboutAt(s, i) ==
    LET a == SkipSpace(s, i + Len(kw_tell))
        b == IF LitAt(s, a, kw_me) /\ SkipSpace(s, a + Len(kw_me)) > a + Len(kw_me)
                  /\ LitAt(s, SkipSpace(s, a + Len(kw_me)), kw_about)
             THEN SkipSpace(s, a + Len(kw_me))
             ELSE a
        p == b + Len(kw_about)
    IN  IF /\ LitAt(s, i, kw_tell)
           /\ a > i + Len(kw_tell)
           /\ LitAt(s, b, kw_about)
           /\ p <= Len(s) /\ IsSpace(s[p])
           /\ \E e \in (p + 2)..Len(s) :
                 /\ \A k \in (p + 1)..(e - 1) : IsTellChar(s[k])
                 /\ s[e] = "."
                 /\ \E x \in tell_extensions : LitAt(s, e + 1, x)
        THEN Match(<<>>)
        ELSE NoMatch

\* re.search(tell-about pattern, query_lower): a match object or None
tell_about_file_pattern(query_lower) ==
    \E i \in 1..Len(query_lower) : TellAboutAt(query_lower, i).matched

\* filename\s+(?:that\s+)?contains\s+([^\s.,]+) at position i
FilenameContainsAt(s, i) ==
    LET a == SkipSpace(s, i + Len(kw_filename))
        b == IF LitAt(s, a, kw_that) /\ SkipSpace(s, a + Len(kw_that)) > a + Len(kw_that)
                  /\ LitAt(s, SkipSpace(s, a + Len(kw_that)), kw_contains)
             THEN SkipSpace(s, a + Len(kw_that))
             ELSE a
    IN  IF LitAt(s, i, kw_filename) /\ a > i + Len(kw_filename) /\ LitAt(s, b, kw_contains)
        THEN SpaceThenName(s, b + Len(kw_contains))
        ELSE NoMatch

\* filename\s+([^\s.,]+) at position i
FilenameAt(s, i) ==
    IF LitAt(s, i, kw_filename) THEN SpaceThenName(s, i + Len(kw_filename)) ELSE NoMatch

\* file\s+named\s+([^\s.,]+) at position i
FileNamedAt(s, i) ==
    LET a == SkipSpace(s, i + Len(kw_file))
    IN  IF LitAt(s, i, kw_file) /\ a > i + Len(kw_file) /\ LitAt(s, a, kw_named)
        THEN SpaceThenName(s, a + Len(kw_named))
        ELSE NoMatch

\* file\s+([^\s.,]+\.(?:pdf|csv|txt|xlsx|docx|html)) at position i.  The run
\* [^\s.,]+ holds no dot, so only the longest run can be followed by the dot.
FileWithExtensionAt(s, i) ==
    LET j == SkipSpace(s, i + Len(kw_file))
        e == SkipName(s, j)
        exts == {x \in filename_extensions : LitAt(s, e + 1, x)}
    IN  IF /\ LitAt(s, i, kw_file)
           /\ j > i + Len(kw_file)
           /\ e > j
           /\ e <= Len(s) /\ s[e] = "."
           /\ exts # {}
        THEN Match(SubSeq(s, j, e + Len(CHOOSE x \in exts : TRUE)))
        ELSE NoMatch

\* filename_patterns[n] at position i
FilenamePatternAt(n, s, i) ==
    CASE n = 1 -> FilenameContainsAt(s, i)
      [] n = 2 -> FilenameAt(s, i)
      [] n = 3 -> FileNamedAt(s, i)
      [] n = 4 -> FileWithExtensionAt(s, i)

\* re.search(filename_patterns[n], query_lower, re.IGNORECASE): the match at
\* the leftmost position where the pattern matches.  query_lower is already
\* lower case and so are the patterns' literals.
filename_patterns(n, query_lower) ==
    LET hits == {i \in 1..Len(query_lower) : FilenamePatternAt(n, query_lower, i).matched}
    IN  IF hits = {} THEN NoMatch
        ELSE FilenamePatternAt(n, query_lower, CHOOSE i \in hits : \A j \in hits : i <= j)

has_content_keyword(query_lower) == ContainsAny(query_lower, content_keywords)
has_action_keyword(query_lower) == ContainsAny(query_lower, action_keywords)
has_file_mention(query_lower) ==
    Contains(query_lower, kw_file) \/ ContainsAny(query_lower, file_extensions)

(***************************************************************************)
(* The queries the model draws from.                                       *)
(***************************************************************************)
\* "Show me the content of Risk20140318.pdf"
Query1 ==
    <<"S","h","o","w"," ","m","e"," ","t","h","e"," ","c","o","n","t","e","n","t"," ","o","f"," ","R","i","s","k","2","0","1","4","0","3","1","8",".","p","d","f">>
\* "filename contains Budget"
Query2 ==
    <<"f","i","l","e","n","a","m","e"," ","c","o","n","t","a","i","n","s"," ","B","u","d","g","e","t">>
\* "What time is it?"
Query3 ==
    <<"W","h","a","t"," ","t","i","m","e"," ","i","s"," ","i","t","?">>
\* "list files"
Query4 ==
    <<"l","i","s","t"," ","f","i","l","e","s">>
\* "Show file report.pdf"
Query5 ==
    <<"S","h","o","w"," ","f","i","l","e"," ","r","e","p","o","r","t",".","p","d","f">>
\* "tell  me about q3.pdf"
Query6 ==
    <<"t","e","l","l"," "," ","m","e"," ","a","b","o","u","t"," ","q","3",".","p","d","f">>
\* "full text of the document"
Query7 ==
    <<"f","u","l","l"," ","t","e","x","t"," ","o","f"," ","t","h","e"," ","d","o","c","u","m","e","n","t">>
\* "show the file verbatim"
Query8 ==
    <<"s","h","o","w"," ","t","h","e"," ","f","i","l","e"," ","v","e","r","b","a","t","i","m">>
\* "file named Plan by filename"
Query9 ==
    <<"f","i","l","e"," ","n","a","m","e","d"," ","P","l","a","n"," ","b","y"," ","f","i","l","e","n","a","m","e">>
\* "the file q3.csv, by filename"
Query10 ==
    <<"t","h","e"," ","f","i","l","e"," ","q","3",".","c","s","v",","," ","b","y"," ","f","i","l","e","n","a","m","e">>
\* "what is the filename?"
Query11 ==
    <<"w","h","a","t"," ","i","s"," ","t","h","e"," ","f","i","l","e","n","a","m","e","?">>
\* "Filename that contains Q3"
Query12 ==
    <<"F","i","l","e","n","a","m","e"," ","t","h","a","t"," ","c","o","n","t","a","i","n","s"," ","Q","3">>
\* "read filename notes.txt"
Query13 ==
    <<"r","e","a","d"," ","f","i","l","e","n","a","m","e"," ","n","o","t","e","s",".","t","x","t">>
\* "context"
Query14 ==
    <<"c","o","n","t","e","x","t">>
\* "verbatim"
Query15 ==
    <<"v","e","r","b","a","t","i","m">>
Queries == {Query1, Query2, Query3, Query4, Query5, Query6, Query7, Query8, Query9, Query10, Query11, Query12, Query13, Query14, Query15}

(***************************************************************************)
(* Python values, as json.loads produces them and model_dump returns them. *)
(* A float is held as twice its value, which keeps the halves exact.       *)
(***************************************************************************)
PyNone == [t |-> "None"]
PyBool(b) == [t |-> "bool", b |-> b]
PyInt(n) == [t |-> "int", n |-> n]
PyFloat(twice) == [t |-> "float", twice |-> twice]
PyStr(pieces) == [t |-> "str", s |-> pieces]
PyList(items) == [t |-> "list", items |-> items]
PyDict(d) == [t |-> "dict", d |-> d]

\* bool(v): the truth value Python's  not v  and  if v  test
Truthy(v) ==
    CASE v.t = "None" -> FALSE
      [] v.t = "bool" -> v.b
      [] v.t = "int" -> v.n # 0
      [] v.t = "float" -> v.twice # 0
      [] v.t = "str" -> Len(v.s) > 0
      [] v.t = "list" -> Len(v.items) > 0
      [] v.t = "dict" -> DOMAIN v.d # {}

\* d[k] = v on a dict's mapping
SetItem(d, k, v) == [x \in DOMAIN d \cup {k} |-> IF x = k THEN v ELSE d[x]]

\* d.get(k, default) on a dict's mapping
Get(d, k, default) == IF k \in DOMAIN d THEN d[k] ELSE default

\* the outcome of a step that may raise: the exception, or the value computed
Raised == [raised |-> TRUE]
Returned(v) == [raised |-> FALSE, value |-> v]

(***************************************************************************)
(* The response text of the model call, as a sequence of tokens: prose     *)
(* without braces, the serialisation of a JSON value, a stray "{" and a    *)
(* stray "}".  Inside a longer text a JSON token is an object or holds no  *)
(* brace.                                                                  *)
(***************************************************************************)
Prose == [k |-> "prose"]
Json(v) == [k |-> "json", v |-> v]
LBrace == [k |-> "lbrace"]
RBrace == [k |-> "rbrace"]

\* json.loads(text): the value, or JSONDecodeError.  A text parses when it
\* is one JSON value, or the two braces of the empty object.
JsonLoads(text) ==
    IF Len(text) = 1 /\ text[1].k = "json" THEN Returned(text[1].v)
    ELSE IF text = <<LBrace, RBrace>> THEN Returned(PyDict(<<>>))
    ELSE Raised

HasOpenBrace(tok) == tok.k = "lbrace" \/ (tok.k = "json" /\ tok.v.t = "dict")
HasCloseBrace(tok) == tok.k = "rbrace" \/ (tok.k = "json" /\ tok.v.t = "dict")

\* re.search(r'(\{.*\})', response_text, re.DOTALL): group 1 runs from the
\* first "{" to the last "}" after it (.* is greedy and matches newlines)
BraceSpan(text) ==
    LET opens == {i \in 1..Len(text) : HasOpenBrace(text[i])}
        first == CHOOSE i \in opens : \A j \in opens : i <= j
        closes == {i \in 1..Len(text) : HasCloseBrace(text[i]) /\ i >= first}
        last == CHOOSE i \in closes : \A j \in closes : j <= i
    IN  IF opens = {} \/ closes = {} THEN NoMatch
        ELSE Match(SubSeq(text, first, last))

\* _extract_json_from_response
ExtractJsonFromResponse(response_text) ==
    LET whole == JsonLoads(response_text)
        json_match == BraceSpan(response_text)
        inner == JsonLoads(json_match.group1)
    IN  IF ~whole.raised THEN whole.value
        ELSE IF json_match.matched
             THEN IF ~inner.raised THEN inner.value ELSE PyDict(<<>>)
             ELSE PyDict(<<>>)

(***************************************************************************)
(* QueryIntent and FilterCondition: the fields, their defaults and their   *)
(* validation on construction (pydantic, lax mode).                        *)
(***************************************************************************)
MinFiles == 5
MaxFilesLimit == 25
DefaultMaxFiles == 10
NonDatasetMaxFiles == 5

BoolFields == {"dataset_info", "file_metadata", "file_content", "summary",
               "is_dataset_related", "needs_clarification"}
QueryIntentFields == BoolFields \cup {"filters", "fields", "clarification_message", "max_files"}

\* the Field(...) defaults of QueryIntent
FieldDefault(key) ==
    CASE key = "is_dataset_related" -> PyBool(TRUE)
      [] key \in BoolFields \ {"is_dataset_related"} -> PyBool(FALSE)
      [] key \in {"filters", "fields"} -> PyList(<<>>)
      [] key = "clarification_message" -> PyNone
      [] key = "max_files" -> PyInt(DefaultMaxFiles)

FilterTypes == {"equals", "contains", "exists"}
FilterOperations == {"AND", "OR"}
FalseWords == {"0", "off", "f", "false", "n", "no"}
TrueWords == {"1", "on", "t", "true", "y", "yes"}

\* bool: a bool, 0 or 1, 0.0 or 1.0, or one of the words pydantic reads as a bool
ValidateBool(v) ==
    CASE v.t = "bool" -> Returned(v)
      [] v.t = "int" -> IF v.n \in {0, 1} THEN Returned(PyBool(v.n = 1)) ELSE Raised
      [] v.t = "float" -> IF v.twice \in {0, 2} THEN Returned(PyBool(v.twice = 2)) ELSE Raised
      [] v.t = "str" -> IF Len(v.s) = 1 /\ v.s[1] \in FalseWords \cup TrueWords
                        THEN Returned(PyBool(v.s[1] \in TrueWords))
                        ELSE Raised
      [] OTHER -> Raised

\* int: an int, a bool, or a float without fractional part.  (A str of digits
\* would pass too; max_files never is one here, the clamp raises on a str.)
ValidateInt(v) ==
    CASE v.t = "int" -> Returned(v)
      [] v.t = "bool" -> Returned(PyInt(IF v.b THEN 1 ELSE 0))
      [] v.t = "float" -> IF v.twice % 2 = 0 THEN Returned(PyInt(v.twice \div 2)) ELSE Raised
      [] OTHER -> Raised

\* ValidateStr without the type check: any value passes for a str
ValidateStr_AnyType(v) == Returned(v)

\* str: only a str
ValidateStr(v) == IF v.t = "str" THEN Returned(v) ELSE Raised

\* Optional[str]
ValidateOptionalStr(v) == IF v.t = "None" THEN Returned(v) ELSE ValidateStr(v)

\* a str Enum: the str of one of its members
ValidateEnum(v, members) ==
    IF v.t = "str" /\ Len(v.s) = 1 /\ v.s[1] \in members THEN Returned(v) ELSE Raised

ValidateFilterType(v) == ValidateEnum(v, FilterTypes)
ValidateFilterOperation(v) == ValidateEnum(v, FilterOperations)

\* FilterCondition(**v): field and type are required, the others have defaults
ValidateFilterCondition(v) ==
    LET out == [key \in {"field", "type", "value", "operation", "include"} |->
                  CASE key = "field" ->
                         IF key \in DOMAIN v.d THEN ValidateStr(v.d[key]) ELSE Raised
                    [] key = "type" ->
                         IF key \in DOMAIN v.d THEN ValidateFilterType(v.d[key]) ELSE Raised
                    [] key = "value" ->
                         IF key \in DOMAIN v.d THEN ValidateOptionalStr(v.d[key])
                         ELSE Returned(PyNone)
                    [] key = "operation" ->
                         IF key \in DOMAIN v.d THEN ValidateFilterOperation(v.d[key])
                         ELSE Returned(PyStr(<<"AND">>))
                    [] key = "include" ->
                         IF key \in DOMAIN v.d THEN ValidateBool(v.d[key])
                         ELSE Returned(PyBool(TRUE))]
    IN  IF v.t = "dict" /\ \A key \in DOMAIN out : ~out[key].raised
        THEN Returned(PyDict([key \in DOMAIN out |-> out[key].value]))
        ELSE Raised

\* List[FilterCondition]: a list whose every item validates
ValidateFilters(v) ==
    IF v.t = "list" /\ \A i \in 1..Len(v.items) : ~ValidateFilterCondition(v.items[i]).raised
    THEN Returned(PyList([i \in 1..Len(v.items) |-> ValidateFilterCondition(v.items[i]).value]))
    ELSE Raised

\* List[str]
ValidateFieldNames(v) ==
    IF v.t = "list" /\ \A i \in 1..Len(v.items) : ~ValidateStr(v.items[i]).raised
    THEN Returned(v)
    ELSE Raised

\* the validation of one field of QueryIntent
ValidateField(key, v) ==
    CASE key \in BoolFields -> ValidateBool(v)
      [] key = "filters" -> ValidateFilters(v)
      [] key = "fields" -> ValidateFieldNames(v)
      [] key = "clarification_message" -> ValidateOptionalStr(v)
      [] key = "max_files" -> ValidateInt(v)

\* QueryIntent(**extracted_json): the validated fields, or ValidationError.
\* A field given is validated, a missing one takes its default; keys that
\* are no field of QueryIntent are ignored.
QueryIntent(d) ==
    LET out == [key \in QueryIntentFields |->
                  IF key \in DOMAIN d THEN ValidateField(key, d[key])
                  ELSE Returned(FieldDefault(key))]
    IN  IF \A key \in QueryIntentFields : ~out[key].raised
        THEN Returned([key \in QueryIntentFields |-> out[key].value])
        ELSE Raised

\* intent.model_dump()
model_dump(fields) == PyDict(fields)

\* default_intent with the smallest max_files in place of 10
default_intent_min_files ==
    model_dump([key \in QueryIntentFields |->
        IF key = "max_files" THEN PyInt(MinFiles) ELSE FieldDefault(key)])

\* default_intent.model_dump(): every field is given, with the value of its default
default_intent ==
    model_dump([key \in QueryIntentFields |->
        CASE key = "dataset_info" -> PyBool(FALSE)
          [] key = "file_metadata" -> PyBool(FALSE)
          [] key = "file_content" -> PyBool(FALSE)
          [] key = "summary" -> PyBool(FALSE)
          [] key = "fields" -> PyList(<<>>)
          [] key = "filters" -> PyList(<<>>)
          [] key = "is_dataset_related" -> PyBool(TRUE)
          [] key = "needs_clarification" -> PyBool(FALSE)
          [] key = "clarification_message" -> PyNone
          [] key = "max_files" -> PyInt(DefaultMaxFiles)])

NonDatasetMessage ==
    PyStr(<<"Your question doesn't appear to be related to searching the dataset. Please try a query about the dataset content or metadata.">>)
DefaultClarificationMessage ==
    PyStr(<<"Could you provide more details about what you're looking for in the dataset?">>)

\* the mapping returned for a query that is not about the dataset
non_dataset_intent ==
    PyDict([key \in {"dataset_info", "file_metadata", "file_content", "summary", "filters",
                     "is_dataset_related", "needs_clarification", "clarification_message",
                     "max_files"} |->
        CASE key \in {"dataset_info", "file_metadata", "file_content", "summary",
                      "is_dataset_related"} -> PyBool(FALSE)
          [] key = "filters" -> PyList(<<>>)
          [] key = "needs_clarification" -> PyBool(TRUE)
          [] key = "clarification_message" -> NonDatasetMessage
          [] key = "max_files" -> PyInt(NonDatasetMaxFiles)])

(***************************************************************************)
(* The steps of extract_query_intent between the parse and the return.     *)
(***************************************************************************)
IsNumber(v) == v.t \in {"int", "float", "bool"}
\* twice the value of a number
Twice(v) ==
    CASE v.t = "int" -> 2 * v.n
      [] v.t = "float" -> v.twice
      [] v.t = "bool" -> IF v.b THEN 2 ELSE 0

\* min(a, b) and max(a, b): the first argument, unless the second is smaller (larger)
PyMin(a, b) == IF Twice(b) < Twice(a) THEN b ELSE a
PyMax(a, b) == IF Twice(b) > Twice(a) THEN b ELSE a

\* ClampMaxFiles without the upper limit: max(5, v)
ClampMaxFiles_NoUpper(v) ==
    IF IsNumber(v) THEN Returned(PyMax(PyInt(MinFiles), v)) ELSE Raised

\* ClampMaxFiles without the lower limit: min(25, v)
ClampMaxFiles_NoLower(v) ==
    IF IsNumber(v) THEN Returned(PyMin(PyInt(MaxFilesLimit), v)) ELSE Raised

\* max(5, min(25, v)): TypeError when v does not compare with an int
ClampMaxFiles(v) ==
    IF IsNumber(v)
    THEN Returned(PyMax(PyInt(MinFiles), PyMin(PyInt(MaxFilesLimit), v)))
    ELSE Raised

\* if "max_files" in extracted_json: extracted_json["max_files"] = max(5, min(25, ...)).
\* The value parsed need not be a dict: in on a list looks for an equal item,
\* in on a str for a substring (here: a piece that is the key), and subscripting
\* either with a str raises; in on a number raises.
ClampStep(extracted) ==
    CASE extracted.t = "dict" ->
           IF "max_files" \in DOMAIN extracted.d
           THEN LET c == ClampMaxFiles(extracted.d["max_files"])
                IN  IF c.raised THEN Raised
                    ELSE Returned(PyDict(SetItem(extracted.d, "max_files", c.value)))
           ELSE Returned(extracted)
      [] extracted.t = "list" ->
           IF \E i \in 1..Len(extracted.items) : extracted.items[i] = PyStr(<<"max_files">>)
           THEN Raised ELSE Returned(extracted)
      [] extracted.t = "str" ->
           IF \E i \in 1..Len(extracted.s) : extracted.s[i] = "max_files"
           THEN Raised ELSE Returned(extracted)
      [] OTHER -> Raised

\* the filter the filename fallback appends
FilenameFilter(filename_value) ==
    PyDict([key \in {"field", "type", "value", "operation", "include"} |->
        CASE key = "field" -> PyStr(<<"filename">>)
          [] key = "type" -> PyStr(<<"contains">>)
          [] key = "value" -> PyStr(filename_value)
          [] key = "operation" -> PyStr(<<"AND">>)
          [] key = "include" -> PyBool(TRUE)])

\* QueryFacts with the filename patterns tried from the last to the first
QueryFacts_LastPattern(q) ==
    LET query_lower == Lower(q)
        matching == {n \in 1..4 : filename_patterns(n, query_lower).matched}
        last == CHOOSE n \in matching : \A m \in matching : m <= n
    IN  [looks_like_content |->
            \/ has_content_keyword(query_lower)
            \/ (has_action_keyword(query_lower) /\ has_file_mention(query_lower))
            \/ tell_about_file_pattern(query_lower),
         full_content |-> ContainsAny(query_lower, full_content_indicators),
         mentions_filename |-> Contains(query_lower, kw_filename),
         match |-> IF matching = {} THEN NoMatch ELSE filename_patterns(last, query_lower)]

\* What _apply_content_request_heuristics reads off the query: the three
\* triggers of the content fallback, the full-content indicators, the
\* "filename" test and the match of the first filename pattern that matches
\* (for pattern in filename_patterns: ... break).
QueryFacts(q) ==
    LET query_lower == Lower(q)
        matching == {n \in 1..4 : filename_patterns(n, query_lower).matched}
        first == CHOOSE n \in matching : \A m \in matching : n <= m
    IN  [looks_like_content |->
            \/ has_content_keyword(query_lower)
            \/ (has_action_keyword(query_lower) /\ has_file_mention(query_lower))
            \/ tell_about_file_pattern(query_lower),
         full_content |-> ContainsAny(query_lower, full_content_indicators),
         mentions_filename |-> Contains(query_lower, kw_filename),
         match |-> IF matching = {} THEN NoMatch ELSE filename_patterns(first, query_lower)]

\* the facts of each query of the model, computed once
FactsOf == [q \in Queries |-> QueryFacts(q)]

\* ContentRequestFallback that forces file_content and leaves file_metadata
ContentRequestFallback_ContentOnly(facts, d) ==
    LET d1 == SetItem(d, "file_content", PyBool(TRUE))
        d2 == IF "summary" \notin DOMAIN d1 THEN SetItem(d1, "summary", PyBool(TRUE)) ELSE d1
        d3 == IF facts.full_content THEN SetItem(d2, "summary", PyBool(FALSE)) ELSE d2
    IN  IF facts.looks_like_content /\ ~Truthy(Get(d, "file_content", PyBool(FALSE)))
        THEN d3
        ELSE d

\* ContentRequestFallback that does not look for the full-content indicators
ContentRequestFallback_NoFullContent(facts, d) ==
    LET d1 == SetItem(SetItem(d, "file_content", PyBool(TRUE)), "file_metadata", PyBool(TRUE))
        d2 == IF "summary" \notin DOMAIN d1 THEN SetItem(d1, "summary", PyBool(TRUE)) ELSE d1
    IN  IF facts.looks_like_content /\ ~Truthy(Get(d, "file_content", PyBool(FALSE)))
        THEN d2
        ELSE d

\* ContentRequestFallback that does not look at the candidate's file_content
ContentRequestFallback_IgnoresCandidate(facts, d) ==
    LET d1 == SetItem(SetItem(d, "file_content", PyBool(TRUE)), "file_metadata", PyBool(TRUE))
        d2 == IF "summary" \notin DOMAIN d1 THEN SetItem(d1, "summary", PyBool(TRUE)) ELSE d1
        d3 == IF facts.full_content THEN SetItem(d2, "summary", PyBool(FALSE)) ELSE d2
    IN  IF facts.looks_like_content THEN d3 ELSE d

\* the first part of _apply_content_request_heuristics: force file_content
ContentRequestFallback(facts, d) ==
    LET d1 == SetItem(SetItem(d, "file_content", PyBool(TRUE)), "file_metadata", PyBool(TRUE))
        d2 == IF "summary" \notin DOMAIN d1 THEN SetItem(d1, "summary", PyBool(TRUE)) ELSE d1
        d3 == IF facts.full_content THEN SetItem(d2, "summary", PyBool(FALSE)) ELSE d2
    IN  IF facts.looks_like_content /\ ~Truthy(Get(d, "file_content", PyBool(FALSE)))
        THEN d3
        ELSE d

\* FilenameFilterFallback that does not look at the candidate's filters
FilenameFilterFallback_AlwaysAppends(facts, d) ==
    LET d1 == IF "filters" \notin DOMAIN d THEN SetItem(d, "filters", PyList(<<>>)) ELSE d
    IN  IF facts.mentions_filename /\ facts.match.matched
        THEN IF d1["filters"].t = "list"
             THEN Returned(SetItem(d1, "filters",
                      PyList(Append(d1["filters"].items, FilenameFilter(facts.match.group1)))))
             ELSE Raised
        ELSE Returned(d)

\* the second part: the filename filter, from the first pattern that matches.
\* append raises AttributeError when "filters" holds something that is no list.
FilenameFilterFallback(facts, d) ==
    LET d1 == IF "filters" \notin DOMAIN d THEN SetItem(d, "filters", PyList(<<>>)) ELSE d
    IN  IF ~Truthy(Get(d, "filters", PyNone)) /\ facts.mentions_filename /\ facts.match.matched
        THEN IF d1["filters"].t = "list"
             THEN Returned(SetItem(d1, "filters",
                      PyList(Append(d1["filters"].items, FilenameFilter(facts.match.group1)))))
             ELSE Raised
        ELSE Returned(d)

\* _apply_content_request_heuristics(query, extracted_json); .get raises
\* AttributeError when the value parsed is no dict
ApplyContentRequestHeuristics(q, extracted) ==
    LET out == FilenameFilterFallback(FactsOf[q], ContentRequestFallback(FactsOf[q], extracted.d))
    IN  IF extracted.t # "dict" \/ out.raised THEN Raised
        ELSE Returned(PyDict(out.value))

\* ReturnIntent without the override for a query that is not about the dataset
ReturnIntent_NoOverride(fields) ==
    IF fields["needs_clarification"].b /\ ~Truthy(fields["clarification_message"])
    THEN model_dump(SetItem(fields, "clarification_message", DefaultClarificationMessage))
    ELSE model_dump(fields)

\* ReturnIntent without the default clarification message
ReturnIntent_NoDefaultMessage(fields) ==
    IF ~fields["is_dataset_related"].b THEN non_dataset_intent ELSE model_dump(fields)

\* the end of the try block: the override for a query that is not about the
\* dataset, or the validated intent, with the default message when clarification is
\* needed and none is given
ReturnIntent(fields) ==
    IF ~fields["is_dataset_related"].b
    THEN non_dataset_intent
    ELSE IF fields["needs_clarification"].b /\ ~Truthy(fields["clarification_message"])
         THEN model_dump(SetItem(fields, "clarification_message", DefaultClarificationMessage))
         ELSE model_dump(fields)

(***************************************************************************)
(* The inputs: queries (above) and model responses.  A candidate is the    *)
(* JSON object of a response: some of the ten keys, each with a value of   *)
(* the right type or a wrong one.                                          *)
(***************************************************************************)
MaxCandidateKeys == 2

KeyOrder == <<"dataset_info", "file_metadata", "file_content", "summary", "filters", "fields",
              "is_dataset_related", "needs_clarification", "clarification_message",
              "max_files">>

\* a well-formed filter (operation and include left to their defaults)
DepartmentFilter ==
    PyDict([key \in {"field", "type", "value"} |->
        CASE key = "field" -> PyStr(<<"department">>)
          [] key = "type" -> PyStr(<<"equals">>)
          [] key = "value" -> PyStr(<<"finance">>)])
\* a second well-formed filter
OwnerFilter ==
    PyDict([key \in {"field", "type", "operation"} |->
        CASE key = "field" -> PyStr(<<"owner">>)
          [] key = "type" -> PyStr(<<"exists">>)
          [] key = "operation" -> PyStr(<<"OR">>)])
\* a filter whose type is no member of FilterType
RegexFilter ==
    PyDict([key \in {"field", "type"} |->
        CASE key = "field" -> PyStr(<<"filename">>)
          [] key = "type" -> PyStr(<<"regex">>)])

FieldValues(key) ==
    CASE key = "dataset_info" -> {PyBool(TRUE)}
      [] key = "file_metadata" -> {PyBool(TRUE), PyBool(FALSE)}
      [] key = "file_content" -> {PyBool(TRUE), PyBool(FALSE), PyNone, PyStr(<<"false">>)}
      [] key = "summary" -> {PyBool(TRUE), PyBool(FALSE)}
      [] key = "filters" -> {PyNone, PyList(<<>>), PyList(<<DepartmentFilter>>),
                             PyList(<<RegexFilter>>), PyList(<<OwnerFilter, DepartmentFilter>>)}
      [] key = "fields" -> {PyList(<<PyStr(<<"filename">>)>>)}
      [] key = "is_dataset_related" -> {PyBool(TRUE), PyBool(FALSE)}
      [] key = "needs_clarification" -> {PyBool(TRUE), PyBool(FALSE)}
      [] key = "clarification_message" ->
             {PyNone, PyStr(<<>>), PyStr(<<"Which file do you mean?">>), PyInt(7)}
      [] key = "max_files" ->
             {PyInt(0 - 3), PyInt(4), PyInt(5), PyInt(12), PyInt(25), PyInt(26),
              PyFloat(14), PyFloat(15), PyFloat(61), PyStr(<<"10">>), PyNone}

\* the mappings over the first n keys that hold at most MaxCandidateKeys keys
RECURSIVE CandidatesOver(_)
CandidatesOver(n) ==
    IF n = 0 THEN {<<>>}
    ELSE LET prev == CandidatesOver(n - 1)
         IN  prev \cup {SetItem(c, KeyOrder[n], v) :
                          c \in {x \in prev : Cardinality(DOMAIN x) < MaxCandidateKeys},
                          v \in FieldValues(KeyOrder[n])}

Candidates == CandidatesOver(Len(KeyOrder))

\* the response is the object alone
ObjectResponses == {<<Json(PyDict(c))>> : c \in Candidates}
\* the object with prose around it
WrappedResponses ==
    {<<Prose, Json(PyDict(c)), Prose>> : c \in {x \in Candidates : Cardinality(DOMAIN x) = 1}}
\* no object, a JSON value that is no object, stray braces, two objects
OtherResponses ==
    {<<>>, <<Prose>>,
     <<Json(PyNone)>>, <<Json(PyBool(TRUE))>>, <<Json(PyInt(0))>>, <<Json(PyInt(5))>>,
     <<Json(PyStr(<<"max_files">>))>>, <<Json(PyStr(<<"no idea">>))>>,
     <<Json(PyList(<<>>))>>, <<Json(PyList(<<PyStr(<<"max_files">>)>>))>>,
     <<Json(PyList(<<PyInt(5)>>))>>,
     <<LBrace, RBrace>>, <<LBrace, Prose>>, <<RBrace, Prose, LBrace>>,
     <<Prose, LBrace, Prose, RBrace>>, <<Prose, LBrace, RBrace, Prose>>,
     <<Json(PyDict([key \in {"max_files"} |-> PyInt(12)])), Prose,
       Json(PyDict([key \in {"summary"} |-> PyBool(TRUE)]))>>}

Responses == ObjectResponses \cup WrappedResponses \cup OtherResponses

(***************************************************************************)
(* extract_query_intent, one call after the other.                         *)
(***************************************************************************)
NoResponse == [t |-> "none"]
NoResult == [t |-> "none"]
Validated(fields) == [t |-> "QueryIntent", fields |-> fields]

\* no call of extract_query_intent is under way
ExtractorIdle ==
    /\ pc = "idle"
    /\ query = <<>>
    /\ response = NoResponse
    /\ extracted_json = PyNone
    /\ intent = PyNone
    /\ raised = "none"
    /\ result = NoResult

\* no concurrent calls
ConcurrentIdle == calls = <<>> /\ heap = <<>>

\* no call of create_youtube_short is under way
ShortIdle ==
    /\ short_pc = "idle"
    /\ short_args = <<>>
    /\ results = <<>>
    /\ processed_video = <<>>
    /\ audio_file = <<>>
    /\ final_video = <<>>
    /\ invoked = <<>>
    /\ short_result = NoResult

\* no call of send_to_telegram is under way
TelegramIdle ==
    /\ telegram_pc = "idle"
    /\ message = <<>>
    /\ bot_token = PyNone
    /\ chat_id = PyNone
    /\ telegram_response = NoResponse
    /\ posts = <<>>
    /\ telegram_result = NoResult

\* no call of check_and_send_email_summary is under way
EmailIdle ==
    /\ email_pc = "idle"
    /\ emails_result = NoResult
    /\ telegram_summary = <<>>
    /\ email_result = NoResult

Init == ExtractorIdle /\ ConcurrentIdle /\ ShortIdle /\ TelegramIdle /\ EmailIdle

\* extract_query_intent(query): default_intent and the prompt are built
Call ==
    /\ pc = "idle"
    /\ \E q \in Queries : query' = q
    /\ pc' = "create"
    /\ UNCHANGED <<response, extracted_json, intent, raised, result>>
    /\ UNCHANGED notExtractor

\* self.client.messages.create(...) returns a response with this text
MessagesCreateReturns ==
    /\ pc = "create"
    /\ \E text \in Responses : response' = Returned(text)
    /\ pc' = "extract"
    /\ UNCHANGED <<query, extracted_json, intent, raised, result>>
    /\ UNCHANGED notExtractor

\* self.client.messages.create(...) raises; the outer handler returns the default
MessagesCreateRaises ==
    /\ pc = "create"
    /\ response' = Raised
    /\ raised' = "messages.create"
    /\ result' = default_intent
    /\ pc' = "done"
    /\ UNCHANGED <<query, extracted_json, intent>>
    /\ UNCHANGED notExtractor

\* extracted_json = self._extract_json_from_response(...); if not extracted_json: return default
ExtractJson ==
    /\ pc = "extract"
    /\ LET parsed == ExtractJsonFromResponse(response.value)
       IN  /\ extracted_json' = parsed
           /\ IF Truthy(parsed)
              THEN pc' = "clamp" /\ UNCHANGED result
              ELSE pc' = "done" /\ result' = default_intent
    /\ UNCHANGED <<query, response, intent, raised>>
    /\ UNCHANGED notExtractor

\* the max_files clamp; the inner handler returns the default when it raises
Clamp ==
    /\ pc = "clamp"
    /\ LET out == ClampStep(extracted_json)
       IN  IF out.raised
           THEN /\ raised' = "clamp"
                /\ result' = default_intent
                /\ pc' = "done"
                /\ UNCHANGED extracted_json
           ELSE /\ extracted_json' = out.value
                /\ pc' = "heuristics"
                /\ UNCHANGED <<raised, result>>
    /\ UNCHANGED <<query, response, intent>>
    /\ UNCHANGED notExtractor

\* extracted_json = self._apply_content_request_heuristics(query, extracted_json)
Heuristics ==
    /\ pc = "heuristics"
    /\ LET out == ApplyContentRequestHeuristics(query, extracted_json)
       IN  IF out.raised
           THEN /\ raised' = "heuristics"
                /\ result' = default_intent
                /\ pc' = "done"
                /\ UNCHANGED extracted_json
           ELSE /\ extracted_json' = out.value
                /\ pc' = "validate"
                /\ UNCHANGED <<raised, result>>
    /\ UNCHANGED <<query, response, intent>>
    /\ UNCHANGED notExtractor

\* intent = QueryIntent(**extracted_json)
Validate ==
    /\ pc = "validate"
    /\ LET out == QueryIntent(extracted_json.d)
       IN  IF out.raised
           THEN /\ raised' = "QueryIntent"
                /\ result' = default_intent
                /\ pc' = "done"
                /\ UNCHANGED intent
           ELSE /\ intent' = Validated(out.value)
                /\ pc' = "return"
                /\ UNCHANGED <<raised, result>>
    /\ UNCHANGED <<query, response, extracted_json>>
    /\ UNCHANGED notExtractor

\* the override or intent.model_dump()
Return ==
    /\ pc = "return"
    /\ result' = ReturnIntent(intent.fields)
    /\ pc' = "done"
    /\ UNCHANGED <<query, response, extracted_json, intent, raised>>
    /\ UNCHANGED notExtractor

\* the caller has the result; the extractor is ready for the next call
NextCall ==
    /\ pc = "done"
    /\ pc' = "idle"
    /\ query' = <<>>
    /\ response' = NoResponse
    /\ extracted_json' = PyNone
    /\ intent' = PyNone
    /\ raised' = "none"
    /\ result' = NoResult
    /\ UNCHANGED notExtractor

Next ==
    \/ Call
    \/ MessagesCreateReturns
    \/ MessagesCreateRaises
    \/ ExtractJson
    \/ Clamp
    \/ Heuristics
    \/ Validate
    \/ Return
    \/ NextCall

Spec == Init /\ [][Next]_vars

(***************************************************************************)
(* What the properties below speak of.                                     *)
(***************************************************************************)
\* the call has returned
Done == pc = "done"

\* the model call returned a text
Responded == response # NoResponse /\ response # Raised

\* the response text is one JSON object, alone or with prose around it
GaveObject ==
    /\ Responded
    /\ \/ Len(response.value) = 1 /\ HasOpenBrace(response.value[1])
                                  /\ response.value[1].k = "json"
       \/ /\ Len(response.value) = 3
          /\ response.value[1] = Prose /\ response.value[3] = Prose
          /\ response.value[2].k = "json" /\ response.value[2].v.t = "dict"

\* that object, as the model wrote it: the candidate record
ModelObject ==
    IF Len(response.value) = 1 THEN response.value[1].v.d ELSE response.value[2].v.d

\* the candidate gives key this value
Gives(key, v) == GaveObject /\ key \in DOMAIN ModelObject /\ ModelObject[key] = v
\* the candidate does not give key
Omits(key) == GaveObject /\ key \notin DOMAIN ModelObject

\* the call returned the validated intent: no statement raised and the
\* query was taken to be about the dataset
NormalResult == Done /\ intent # PyNone /\ intent.fields["is_dataset_related"].b
\* the call returned the override for a query that is not about the dataset
OverrideResult == Done /\ intent # PyNone /\ ~intent.fields["is_dataset_related"].b
\* the call returned the default intent
DefaultResult == Done /\ intent = PyNone

\* the default intent, field by field
ExpectedDefault ==
    PyDict("dataset_info" :> PyBool(FALSE) @@ "file_metadata" :> PyBool(FALSE)
           @@ "file_content" :> PyBool(FALSE) @@ "summary" :> PyBool(FALSE)
           @@ "filters" :> PyList(<<>>) @@ "fields" :> PyList(<<>>)
           @@ "is_dataset_related" :> PyBool(TRUE) @@ "needs_clarification" :> PyBool(FALSE)
           @@ "clarification_message" :> PyNone @@ "max_files" :> PyInt(10))

\* the fixed record for a query that is not about the dataset, field by field
ExpectedOverride ==
    PyDict("dataset_info" :> PyBool(FALSE) @@ "file_metadata" :> PyBool(FALSE)
           @@ "file_content" :> PyBool(FALSE) @@ "summary" :> PyBool(FALSE)
           @@ "filters" :> PyList(<<>>)
           @@ "is_dataset_related" :> PyBool(FALSE) @@ "needs_clarification" :> PyBool(TRUE)
           @@ "clarification_message" :> PyStr(<<"Your question doesn't appear to be related to searching the dataset. Please try a query about the dataset content or metadata.">>)
           @@ "max_files" :> PyInt(5))

(***************************************************************************)
(* C1                                                                      *)
(***************************************************************************)
\* C1: every call that is done has returned a mapping, and a call whose model
\* call raised has returned exactly the default intent.
C1_ModelCallFailureReturnsDefault ==
    Done => /\ result.t = "dict"
            /\ (response = Raised => result = ExpectedDefault)

\* a call whose model call raised has returned
C1_Witness == Done /\ response = Raised /\ raised = "messages.create" /\ result.t = "dict"

(***************************************************************************)
(* C2                                                                      *)
(***************************************************************************)
\* C2 as claimed: whenever the candidate's is_dataset_related is false the
\* call returns the override record, whatever the other fields hold.  (Calls
\* in which the filename fallback raised are left to C9.)
C2_OverrideWhateverTheOtherFields ==
    (Done /\ Gives("is_dataset_related", PyBool(FALSE)) /\ raised # "heuristics") =>
        result = ExpectedOverride

\* C2 as amended: whenever the candidate's is_dataset_related is false, the
\* call returns the override record if the clamp, the heuristics and the
\* validation all pass, whatever the values of the other fields and whatever
\* the query; if one of them raises on another field it returns the default
\* intent.
C2_OverrideWhenCandidateValidates ==
    (Done /\ Gives("is_dataset_related", PyBool(FALSE))) =>
        /\ raised = "none" => result = ExpectedOverride
        /\ raised # "none" => result = ExpectedDefault

\* a candidate that is not about the dataset and sets other fields too, with
\* a query that makes the heuristics rewrite it, got the override
C2_Witness ==
    /\ Done /\ raised = "none"
    /\ Gives("is_dataset_related", PyBool(FALSE))
    /\ Gives("file_content", PyBool(FALSE))
    /\ FactsOf[query].looks_like_content
    /\ extracted_json.d["file_content"] = PyBool(TRUE)
    /\ result = ExpectedOverride

(***************************************************************************)
(* C3                                                                      *)
(***************************************************************************)
\* C3: in every record returned, max_files is an int from 5 to 25.
C3_MaxFilesInRange ==
    Done => /\ "max_files" \in DOMAIN result.d
            /\ result.d["max_files"].t = "int"
            /\ result.d["max_files"].n >= 5
            /\ result.d["max_files"].n <= 25

\* a candidate asking for 26 files came back with 25
C3_Witness ==
    NormalResult /\ Gives("max_files", PyInt(26)) /\ result.d["max_files"] = PyInt(25)

(***************************************************************************)
(* C4                                                                      *)
(***************************************************************************)
\* twice clamp(v, 5, 25), from twice v
TwiceClamped(twice) == IF twice < 10 THEN 10 ELSE IF twice > 50 THEN 50 ELSE twice

\* the candidate gives max_files a number
GivesNumber == GaveObject /\ "max_files" \in DOMAIN ModelObject /\ IsNumber(ModelObject["max_files"])

C5_ContentImpliesMetadata ==
    Done => (result.d["file_content"] = PyBool(TRUE) => result.d["file_metadata"] = PyBool(TRUE))

(***************************************************************************)
(* C6                                                                      *)
(***************************************************************************)
\* the candidate asks for clarification and gives no message: the key is
\* missing, null or the empty str
AsksWithoutMessage ==
    /\ Gives("needs_clarification", PyBool(TRUE))
    /\ \/ Omits("clarification_message")
       \/ Gives("clarification_message", PyNone)
       \/ Gives("clarification_message", PyStr(<<>>))

\* C6: in every record returned, needs_clarification true implies a
\* clarification_message that is a non-empty str; and a candidate that asks
\* for clarification without a message is returned with the default text.
C6_ClarificationHasMessage ==
    Done =>
        /\ result.d["needs_clarification"] = PyBool(TRUE) =>
              /\ result.d["clarification_message"].t = "str"
              /\ Len(result.d["clarification_message"].s) > 0
        /\ (NormalResult /\ AsksWithoutMessage) =>
              result.d["clarification_message"] =
                  PyStr(<<"Could you provide more details about what you're looking for in the dataset?">>)

\* a candidate with needs_clarification true and an empty message came back
\* with the default text
C6_Witness ==
    /\ NormalResult
    /\ Gives("needs_clarification", PyBool(TRUE))
    /\ Gives("clarification_message", PyStr(<<>>))
    /\ result.d["needs_clarification"] = PyBool(TRUE)
    /\ result.d["clarification_message"] = DefaultClarificationMessage

(***************************************************************************)
(* C7                                                                      *)
(***************************************************************************)
\* the query triggers the content fallback and the candidate's file_content
\* is false or absent
ContentAsked ==
    /\ Done /\ GaveObject
    /\ FactsOf[query].looks_like_content
    /\ (Gives("file_content", PyBool(FALSE)) \/ Omits("file_content"))

\* C7 as claimed: for such a query and candidate the record returned has
\* file_content and file_metadata true.  (Calls in which the filename
\* fallback raised are left to C9.)
C7_ContentForcedInResult ==
    (ContentAsked /\ raised # "heuristics") =>
        /\ result.d["file_content"] = PyBool(TRUE)
        /\ result.d["file_metadata"] = PyBool(TRUE)

\* C7 as amended: for such a query and candidate the record returned has
\* file_content and file_metadata true when the call returns the validated
\* intent; the override and the default intent have both false.
C7_ContentForcedInNormalResult ==
    ContentAsked =>
        /\ NormalResult =>
              /\ result.d["file_content"] = PyBool(TRUE)
              /\ result.d["file_metadata"] = PyBool(TRUE)
        /\ ~NormalResult =>
              /\ result.d["file_content"] = PyBool(FALSE)
              /\ result.d["file_metadata"] = PyBool(FALSE)

\* a candidate with file_content and file_metadata false, for a query that
\* triggers the fallback, came back with both true
C7_Witness ==
    /\ ContentAsked /\ NormalResult
    /\ Gives("file_content", PyBool(FALSE))
    /\ Gives("file_metadata", PyBool(FALSE))
    /\ result.d["file_content"] = PyBool(TRUE)
    /\ result.d["file_metadata"] = PyBool(TRUE)

(***************************************************************************)
(* C8                                                                      *)
(***************************************************************************)
\* the content fallback forced file_content: the heuristics were called, the
\* query triggers the fallback and the candidate's file_content is not true
ContentForced ==
    /\ Done /\ GaveObject /\ raised # "clamp"
    /\ DOMAIN ModelObject # {}
    /\ FactsOf[query].looks_like_content
    /\ ~Truthy(Get(ModelObject, "file_content", PyBool(FALSE)))

\* the summary C8 expects: false with a full-content indicator in the query,
\* else true when the candidate did not set it and the candidate's value
\* when it did
ExpectedSummary ==
    IF FactsOf[query].full_content THEN PyBool(FALSE)
    ELSE IF "summary" \in DOMAIN ModelObject THEN ModelObject["summary"]
    ELSE PyBool(TRUE)

\* C8 as claimed: whenever the fallback forced file_content, the record
\* returned has the summary expected.  (Calls in which the filename fallback
\* raised are left to C9.)
C8_SummaryInResult ==
    (ContentForced /\ raised # "heuristics") => result.d["summary"] = ExpectedSummary

\* C8 as amended: whenever the fallback forced file_content, the record
\* returned has the summary expected when the call returns the validated
\* intent; the override and the default intent have summary false.
C8_SummaryInNormalResult ==
    ContentForced =>
        /\ NormalResult => result.d["summary"] = ExpectedSummary
        /\ ~NormalResult => result.d["summary"] = PyBool(FALSE)

\* a candidate with summary true, for a query with a full-content indicator,
\* came back with summary false
C8_Witness ==
    /\ ContentForced /\ NormalResult
    /\ FactsOf[query].full_content
    /\ Gives("summary", PyBool(TRUE))
    /\ result.d["file_content"] = PyBool(TRUE)
    /\ result.d["summary"] = PyBool(FALSE)

(***************************************************************************)
(* C9                                                                      *)
(***************************************************************************)
\* _apply_content_request_heuristics was called
HeuristicsCalled ==
    \/ pc \in {"validate", "return"}
    \/ Done /\ (raised \in {"heuristics", "QueryIntent"} \/ intent # PyNone)

\* C9 as claimed: once the heuristics were called for a query that holds
\* "filename" and matches a filename pattern, with a candidate whose filters
\* are absent, empty or null, the filters are one filter: filename contains
\* the first capture group, AND, include.
C9_OneFilenameFilterAppended ==
    (/\ HeuristicsCalled
     /\ FactsOf[query].mentions_filename /\ FactsOf[query].match.matched
     /\ \/ Omits("filters")
        \/ Gives("filters", PyList(<<>>))
        \/ Gives("filters", PyNone)) =>
        extracted_json.d["filters"] =
            PyList(<<PyDict("field" :> PyStr(<<"filename">>) @@ "type" :> PyStr(<<"contains">>)
                            @@ "value" :> PyStr(FactsOf[query].match.group1)
                            @@ "operation" :> PyStr(<<"AND">>) @@ "include" :> PyBool(TRUE))>>)

(***************************************************************************)
(* C10                                                                     *)
(***************************************************************************)
\* the response holds no JSON record
NoRecord ==
    /\ Responded
    /\ \/ response.value \in {<<>>, <<Prose>>, <<LBrace, Prose>>, <<RBrace, Prose, LBrace>>,
                              <<Prose, LBrace, Prose, RBrace>>}
       \/ Len(response.value) = 1 /\ response.value[1].k = "json"
                                  /\ response.value[1].v.t # "dict"

\* the candidate holds a value of the wrong type or a bad enum value
BadCandidate ==
    \/ Gives("filters", PyList(<<RegexFilter>>))
    \/ Gives("clarification_message", PyInt(7))
    \/ Gives("max_files", PyStr(<<"10">>))
    \/ Gives("max_files", PyNone)
    \/ Gives("max_files", PyFloat(15))

\* C10: whenever the response holds no record or the candidate fails the
\* validation, and whenever a statement of the try block raised, the record
\* returned is exactly the default intent.
C10_FailureReturnsDefault ==
    Done =>
        /\ (NoRecord \/ BadCandidate) => result = ExpectedDefault
        /\ raised # "none" => result = ExpectedDefault

\* a candidate with a clarification_message of the wrong type, which the
\* heuristics had corrected to file_content true, came back as the default
C10_Witness ==
    /\ Done /\ raised = "QueryIntent"
    /\ Gives("clarification_message", PyInt(7))
    /\ Gives("is_dataset_related", PyBool(FALSE))
    /\ "file_content" \in DOMAIN extracted_json.d
    /\ extracted_json.d["file_content"] = PyBool(TRUE)
    /\ result = ExpectedDefault

(***************************************************************************)
(* C11                                                                     *)
(***************************************************************************)
\* the first balanced top-level brace-delimited span of a text: from the
\* first "{" to the "}" that closes it (a JSON object is balanced in itself)
FirstBalancedSpan(text) ==
    LET opens == {i \in 1..Len(text) : HasOpenBrace(text[i])}
        first == CHOOSE i \in opens : \A j \in opens : i <= j
        Depth(j) == Cardinality({k \in first..j : text[k] = LBrace})
                    - Cardinality({k \in first..j : text[k] = RBrace})
        closing == {j \in first..Len(text) : Depth(j) = 0}
        last == CHOOSE j \in closing : \A k \in closing : j <= k
    IN  IF opens = {} \/ closing = {} THEN NoMatch
        ELSE Match(SubSeq(text, first, last))

\* _extract_json_from_response has returned and nothing has rewritten its value yet
Extracted ==
    /\ Responded
    /\ pc = "clamp" \/ (Done /\ raised = "none" /\ intent = PyNone)

\* the response holds two JSON objects with text between them
TwoObjects ==
    /\ Responded /\ Len(response.value) = 3
    /\ response.value[1].k = "json" /\ response.value[1].v.t = "dict"
    /\ response.value[2] = Prose
    /\ response.value[3].k = "json" /\ response.value[3].v.t = "dict"

\* C11 as claimed: when the whole response does not parse, the value extracted
\* is the parse of the first balanced top-level brace-delimited span (the
\* first object of a response that holds several), and the empty record
\* only if there is no such span or it does not parse.
C11_FirstBalancedSpanParsed ==
    (Extracted /\ JsonLoads(response.value).raised) =>
        LET span == FirstBalancedSpan(response.value)
        IN  extracted_json =
                IF span.matched /\ ~JsonLoads(span.group1).raised
                THEN JsonLoads(span.group1).value
                ELSE PyDict(<<>>)

(***************************************************************************)
(* C12                                                                     *)
(***************************************************************************)
\* C12 as claimed: on every return path the mapping returned has the ten
\* fields of QueryIntent as its keys, fields among them.
C12_ResultHasAllTenFields ==
    Done => DOMAIN result.d = QueryIntentFields

(***************************************************************************)
(* Two calls of extract_query_intent on one extractor, interleaved         *)
(* statement by statement.  Each call has its own local variables; the     *)
(* objects it builds (default_intent, the dict json.loads returns) live on *)
(* a heap and the locals hold references, so that the in-place writes of   *)
(* the clamp and the heuristics go to the object the reference names.      *)
(* The extractor's own attributes (client, metadata_fields) are only read. *)
(***************************************************************************)
CallIds == {1, 2}

ConcurrentQueries == {Query2, Query4, Query7}

ConcurrentResponses ==
    {<<Prose>>,
     <<Json(PyDict([key \in {"max_files"} |-> PyInt(26)]))>>,
     <<Json(PyDict([key \in {"filters"} |-> PyNone]))>>,
     <<Json(PyDict([key \in {"is_dataset_related"} |-> PyBool(FALSE)]))>>,
     <<Prose, Json(PyDict([key \in {"summary"} |-> PyBool(TRUE)])), Prose>>}

\* no object yet
NoRef == 0

\* the locals of a call that has not started
NewFrame ==
    [pc |-> "idle", query |-> <<>>, response |-> NoResponse, default_intent |-> NoRef,
     extracted_json |-> NoRef, intent |-> PyNone, raised |-> "none", result |-> NoResult]

\* NewObject that hands out the same reference every time
NewObject_Reused(h) == 1

\* the reference of a newly built object: one that names no object yet
NewObject(h) == Len(h) + 1

\* the heap once the object ref names holds v
Store(h, ref, v) == IF ref \in DOMAIN h THEN [h EXCEPT ![ref] = v] ELSE Append(h, v)

ConcurrentInit ==
    /\ calls = [c \in CallIds |-> NewFrame]
    /\ heap = <<>>
    /\ ExtractorIdle /\ ShortIdle /\ TelegramIdle /\ EmailIdle

\* the call returns default_intent.model_dump() from a handler
ReturnDefault(f, why) ==
    [f EXCEPT !.raised = why, !.result = model_dump(heap[f.default_intent].d), !.pc = "done"]

\* extract_query_intent(query): default_intent is built
ConcurrentCall(c) ==
    /\ calls[c].pc = "idle"
    /\ \E q \in ConcurrentQueries :
         LET ref == NewObject(heap)
         IN  /\ heap' = Store(heap, ref, default_intent)
             /\ calls' = [calls EXCEPT ![c] = [@ EXCEPT !.query = q, !.default_intent = ref,
                                                        !.pc = "create"]]
    /\ UNCHANGED notConcurrent

ConcurrentMessagesCreateReturns(c) ==
    /\ calls[c].pc = "create"
    /\ \E text \in ConcurrentResponses :
         calls' = [calls EXCEPT ![c] = [@ EXCEPT !.response = Returned(text), !.pc = "extract"]]
    /\ UNCHANGED <<heap, notConcurrent>>

ConcurrentMessagesCreateRaises(c) ==
    /\ calls[c].pc = "create"
    /\ calls' = [calls EXCEPT ![c] =
                    ReturnDefault([@ EXCEPT !.response = Raised], "messages.create")]
    /\ UNCHANGED <<heap, notConcurrent>>

\* json.loads builds the value parsed; if not extracted_json: return default
ConcurrentExtractJson(c) ==
    /\ calls[c].pc = "extract"
    /\ LET parsed == ExtractJsonFromResponse(calls[c].response.value)
           ref == NewObject(heap)
       IN  /\ heap' = Store(heap, ref, parsed)
           /\ calls' = [calls EXCEPT ![c] =
                  IF Truthy(parsed)
                  THEN [@ EXCEPT !.extracted_json = ref, !.pc = "clamp"]
                  ELSE ReturnDefault([@ EXCEPT !.extracted_json = ref], "none")]
    /\ UNCHANGED notConcurrent

\* extracted_json["max_files"] = max(5, min(25, ...)), written in place
ConcurrentClamp(c) ==
    /\ calls[c].pc = "clamp"
    /\ LET ref == calls[c].extracted_json
           out == ClampStep(heap[ref])
       IN  IF out.raised
           THEN /\ calls' = [calls EXCEPT ![c] = ReturnDefault(@, "clamp")]
                /\ UNCHANGED heap
           ELSE /\ heap' = Store(heap, ref, out.value)
                /\ calls' = [calls EXCEPT ![c] = [@ EXCEPT !.pc = "content"]]
    /\ UNCHANGED notConcurrent

\* _apply_content_request_heuristics, first part, written in place
ConcurrentContentFallback(c) ==
    /\ calls[c].pc = "content"
    /\ LET ref == calls[c].extracted_json
       IN  IF heap[ref].t # "dict"
           THEN /\ calls' = [calls EXCEPT ![c] = ReturnDefault(@, "heuristics")]
                /\ UNCHANGED heap
           ELSE /\ heap' = Store(heap, ref,
                               PyDict(ContentRequestFallback(FactsOf[calls[c].query], heap[ref].d)))
                /\ calls' = [calls EXCEPT ![c] = [@ EXCEPT !.pc = "filename"]]
    /\ UNCHANGED notConcurrent

\* _apply_content_request_heuristics, second part, written in place
ConcurrentFilenameFallback(c) ==
    /\ calls[c].pc = "filename"
    /\ LET ref == calls[c].extracted_json
           out == FilenameFilterFallback(FactsOf[calls[c].query], heap[ref].d)
       IN  IF out.raised
           THEN /\ calls' = [calls EXCEPT ![c] = ReturnDefault(@, "heuristics")]
                /\ UNCHANGED heap
           ELSE /\ heap' = Store(heap, ref, PyDict(out.value))
                /\ calls' = [calls EXCEPT ![c] = [@ EXCEPT !.pc = "validate"]]
    /\ UNCHANGED notConcurrent

\* intent = QueryIntent(**extracted_json)
ConcurrentValidate(c) ==
    /\ calls[c].pc = "validate"
    /\ LET out == QueryIntent(heap[calls[c].extracted_json].d)
       IN  calls' = [calls EXCEPT ![c] =
               IF out.raised THEN ReturnDefault(@, "QueryIntent")
               ELSE [@ EXCEPT !.intent = Validated(out.value), !.pc = "return"]]
    /\ UNCHANGED <<heap, notConcurrent>>

\* the override or intent.model_dump()
ConcurrentReturn(c) ==
    /\ calls[c].pc = "return"
    /\ calls' = [calls EXCEPT ![c] =
                    [@ EXCEPT !.result = ReturnIntent(calls[c].intent.fields), !.pc = "done"]]
    /\ UNCHANGED <<heap, notConcurrent>>

ConcurrentNext ==
    \E c \in CallIds :
        \/ ConcurrentCall(c)
        \/ ConcurrentMessagesCreateReturns(c)
        \/ ConcurrentMessagesCreateRaises(c)
        \/ ConcurrentExtractJson(c)
        \/ ConcurrentClamp(c)
        \/ ConcurrentContentFallback(c)
        \/ ConcurrentFilenameFallback(c)
        \/ ConcurrentValidate(c)
        \/ ConcurrentReturn(c)

SpecConcurrent == ConcurrentInit /\ [][ConcurrentNext]_vars

\* extract_query_intent run alone: the record it returns for this query when
\* messages.create answers this way
RunAlone(q, answer) ==
    LET parsed == ExtractJsonFromResponse(answer.value)
        clamped == ClampStep(parsed)
        corrected == ApplyContentRequestHeuristics(q, clamped.value)
        validated == QueryIntent(corrected.value.d)
    IN  IF answer = Raised THEN default_intent
        ELSE IF ~Truthy(parsed) THEN default_intent
        ELSE IF clamped.raised THEN default_intent
        ELSE IF corrected.raised THEN default_intent
        ELSE IF validated.raised THEN default_intent
        ELSE ReturnIntent(validated.value)

\* a call run on its own returns what RunAlone says
RunAloneIsTheCall == Done => result = RunAlone(query, response)

(***************************************************************************)
(* C13                                                                     *)
(***************************************************************************)
\* C13: under every interleaving of two calls on one extractor, a call that
\* has returned has returned the record it returns when run alone with the
\* same query and the same model response, and the default intent and the
\* candidate of the two calls are four different objects.
C13_ConcurrentCallsIndependent ==
    /\ \A c \in CallIds :
         calls[c].pc = "done" =>
             calls[c].result = RunAlone(calls[c].query, calls[c].response)
    /\ \A c, d \in CallIds :
         \A a, b \in {"default_intent", "extracted_json"} :
            (calls[c][a] # NoRef /\ calls[c][a] = calls[d][b]) => (c = d /\ a = b)

\* call 1 has returned the corrected candidate of its query while call 2,
\* started before call 1 wrote its candidate, is in the heuristics with
\* another query and its own candidate
C13_Witness ==
    /\ calls[1].pc = "done" /\ calls[2].pc = "filename"
    /\ calls[1].query = Query7 /\ calls[2].query = Query2
    /\ calls[2].extracted_json < calls[1].extracted_json
    /\ calls[1].result.d["file_content"] = PyBool(TRUE)
    /\ calls[1].result.d["summary"] = PyBool(FALSE)
    /\ calls[1].result.d["max_files"] = PyInt(25)
    /\ calls[1].response = Returned(<<Json(PyDict([key \in {"max_files"} |-> PyInt(26)]))>>)
    /\ calls[2].response = Returned(<<Json(PyDict([key \in {"filters"} |-> PyNone]))>>)
    /\ heap[calls[2].extracted_json].d["filters"] = PyNone
    /\ heap[calls[2].extracted_json].d["file_content"] = PyBool(TRUE)
    /\ calls[1].result = RunAlone(Query7, calls[1].response)

(***************************************************************************)
(* C14                                                                     *)
(***************************************************************************)
\* _apply_content_request_heuristics has returned; nothing rewrites
\* extracted_json after it
HeuristicsReturned ==
    \/ pc \in {"validate", "return"}
    \/ Done /\ (raised = "QueryIntent" \/ intent # PyNone)

\* for each query, the capture of the lowest-numbered filename pattern that
\* matches its lower-cased text, if any does
FirstPatternCapture ==
    [q \in Queries |->
        LET Try(n) == filename_patterns(n, Lower(q))
        IN  IF Try(1).matched THEN Try(1)
            ELSE IF Try(2).matched THEN Try(2)
            ELSE IF Try(3).matched THEN Try(3)
            ELSE Try(4)]

\* the one filter the fallback builds for this value
OneFilenameFilter(filename_value) ==
    PyList(<<PyDict("field" :> PyStr(<<"filename">>) @@ "type" :> PyStr(<<"contains">>)
                    @@ "value" :> PyStr(filename_value)
                    @@ "operation" :> PyStr(<<"AND">>) @@ "include" :> PyBool(TRUE))>>)

\* C14: when the fallback appends a filter (the query holds "filename", a
\* pattern matches, the candidate's filters are absent or empty), the filters
\* are one filter whose value is the capture of the lowest-numbered pattern
\* that matches; a later pattern that matches too contributes nothing: for
\* "filename contains Budget" the value is "budget", never "contains".
C14_FirstMatchingPatternWins ==
    (/\ HeuristicsReturned
     /\ Omits("filters") \/ Gives("filters", PyList(<<>>))
     /\ Contains(Lower(query), kw_filename)
     /\ FirstPatternCapture[query].matched) =>
        /\ extracted_json.d["filters"] = OneFilenameFilter(FirstPatternCapture[query].group1)
        /\ query \in {Query2, Query12} =>
              /\ filename_patterns(2, Lower(query)).group1 = kw_contains
                 \/ filename_patterns(2, Lower(query)).group1 = kw_that
              /\ extracted_json.d["filters"].items[1].d["value"].s
                   \in {<<"b","u","d","g","e","t">>, <<"q","3">>}

\* "Filename that contains Q3": patterns 1 and 2 both match, the filter
\* appended holds the capture of pattern 1
C14_Witness ==
    /\ HeuristicsReturned /\ query = Query12 /\ Omits("filters")
    /\ filename_patterns(1, Lower(query)).matched
    /\ filename_patterns(2, Lower(query)).group1 = kw_that
    /\ extracted_json.d["filters"] = OneFilenameFilter(<<"q","3">>)

(***************************************************************************)
(* C15                                                                     *)
(***************************************************************************)
\* the candidate after the heuristics has key as the model gave it: the same
\* value, or absent as before
AsTheModelGave(key) ==
    IF key \in DOMAIN ModelObject
    THEN key \in DOMAIN extracted_json.d /\ extracted_json.d[key] = ModelObject[key]
    ELSE key \notin DOMAIN extracted_json.d

\* the candidate came with a non-empty list of filters
GaveFilters ==
    /\ GaveObject /\ "filters" \in DOMAIN ModelObject
    /\ ModelObject["filters"].t = "list" /\ Len(ModelObject["filters"].items) > 0

\* C15: when the lower-cased query does not hold "filename", or the candidate
\* came with a non-empty list of filters, the heuristics return the filters
\* the model gave, in the same order (and none when the model gave none).
C15_FiltersUnchanged ==
    (/\ HeuristicsReturned /\ GaveObject
     /\ ~Contains(Lower(query), kw_filename) \/ GaveFilters) =>
        AsTheModelGave("filters")

\* a query that matches a filename pattern, with a candidate of two filters:
\* the two filters come back in their order
C15_Witness ==
    /\ HeuristicsReturned /\ query = Query2
    /\ Gives("filters", PyList(<<OwnerFilter, DepartmentFilter>>))
    /\ extracted_json.d["filters"].items = <<OwnerFilter, DepartmentFilter>>

(***************************************************************************)
(* C16                                                                     *)
(***************************************************************************)
\* one of the three triggers of the content fallback holds for the query
LooksLikeContentRequest ==
    \/ has_content_keyword(Lower(query))
    \/ has_action_keyword(Lower(query)) /\ has_file_mention(Lower(query))
    \/ tell_about_file_pattern(Lower(query))

\* C16: when the candidate's file_content is already true, or none of the
\* three triggers holds, the heuristics leave file_content, file_metadata and
\* summary as the candidate had them, full-content indicator or not.
C16_ContentFallbackNoOp ==
    (/\ HeuristicsReturned /\ GaveObject
     /\ Gives("file_content", PyBool(TRUE)) \/ ~LooksLikeContentRequest) =>
        /\ AsTheModelGave("file_content")
        /\ AsTheModelGave("file_metadata")
        /\ AsTheModelGave("summary")

\* "full text of the document" with file_content and summary both true in the
\* candidate: summary stays true, file_metadata stays absent
C16_Witness ==
    /\ HeuristicsReturned /\ query = Query7
    /\ ContainsAny(Lower(query), full_content_indicators)
    /\ Gives("file_content", PyBool(TRUE)) /\ Gives("summary", PyBool(TRUE))
    /\ extracted_json.d["summary"] = PyBool(TRUE)
    /\ "file_metadata" \notin DOMAIN extracted_json.d

\* "verbatim": a full-content indicator and no trigger; the candidate's
\* file_content false and summary are left alone
C16_WitnessNoTrigger ==
    /\ HeuristicsReturned /\ query = Query15 /\ ~LooksLikeContentRequest
    /\ ContainsAny(Lower(query), full_content_indicators)
    /\ Gives("file_content", PyBool(FALSE)) /\ Gives("summary", PyBool(TRUE))
    /\ extracted_json.d["file_content"] = PyBool(FALSE)
    /\ extracted_json.d["summary"] = PyBool(TRUE)

(***************************************************************************)
(* create_youtube_short (src/youtube_short_maker/agent.py): the four steps *)
(* and the pipeline over them.  A dict is a function from its keys; a      *)
(* status, a step name and an argument are strings; a text built by an     *)
(* f-string is the sequence of its parts.  What a step finds outside the   *)
(* program (files, environment variables, ffmpeg, the two APIs, the clock) *)
(* is its world, chosen anew for each invocation.                          *)
(***************************************************************************)
Timestamps == {"20240101_120000", "20240101_120001"}
VideoIds == {"dQw4w9WgXcQ", "9bZkp7q19f0"}
ShortDuration == 60

\* {"status": "error", "error_message": ...}
ErrorResult(error_message) == ("status" :> "error") @@ ("error_message" :> error_message)

ProcessWorlds ==
    [exists : BOOLEAN, run : {"raises", "returncode 0", "returncode 1"}, now : Timestamps]

process_background_video(video_path, duration, world) ==
    IF ~world.exists THEN ErrorResult(<<"Video file not found: ", video_path>>)
    ELSE IF world.run = "raises"
         THEN ErrorResult(<<"Error processing video: ", "[Errno 2] No such file or directory: 'ffmpeg'">>)
    ELSE IF world.run = "returncode 0"
         THEN LET output_path == <<"processed_background_", world.now, ".mp4">>
              IN  ("status" :> "success")
                  @@ ("message" :> <<"Video processed successfully: ">> \o output_path)
                  @@ ("output_path" :> output_path)
                  @@ ("format" :> "9:16 (YouTube Shorts)")
                  @@ ("duration" :> duration)
    ELSE ErrorResult(<<"FFmpeg error: ", "Invalid data found when processing input">>)

TtsWorlds == [openai_key : BOOLEAN, speech : {"raises", "returns"}, now : Timestamps]

generate_tts_audio(transcript, voice, world) ==
    IF ~world.openai_key
    THEN ErrorResult(<<"OpenAI API key not configured. Set OPENAI_API_KEY environment variable.">>)
    ELSE IF world.speech = "raises"
         THEN ErrorResult(<<"Error generating TTS: ", "Connection error.">>)
    ELSE LET audio_path == <<"voiceover_", world.now, ".mp3">>
         IN  ("status" :> "success")
             @@ ("message" :> <<"TTS audio generated: ">> \o audio_path)
             @@ ("audio_path" :> audio_path)
             @@ ("voice" :> voice)
             @@ ("transcript_length" :> Len(transcript))

CombineWorlds ==
    [video_exists : BOOLEAN, audio_exists : BOOLEAN,
     run : {"raises", "returncode 0", "returncode 1"}, now : Timestamps]

combine_audio_video(video_path, audio_path, title, world) ==
    IF ~world.video_exists \/ ~world.audio_exists
    THEN ErrorResult(<<"Video or audio file not found">>)
    ELSE IF world.run = "raises"
         THEN ErrorResult(<<"Error combining audio/video: ", "[Errno 2] No such file or directory: 'ffmpeg'">>)
    ELSE IF world.run = "returncode 0"
         THEN LET output_path == <<"youtube_short_", world.now, ".mp4">>
              IN  ("status" :> "success")
                  @@ ("message" :> <<"YouTube Short created: ">> \o output_path)
                  @@ ("output_path" :> output_path)
                  @@ ("title" :> title)
                  @@ ("ready_for_upload" :> TRUE)
    ELSE ErrorResult(<<"FFmpeg error: ", "Invalid data found when processing input">>)

UploadWorlds ==
    [credentials : BOOLEAN, exists : BOOLEAN, execute : {"raises", "returns"}, id : VideoIds]

upload_to_youtube(video_path, title, description, tags, world) ==
    IF ~world.credentials
    THEN ErrorResult(<<"YouTube API credentials not configured. Need YOUTUBE_CLIENT_ID, YOUTUBE_CLIENT_SECRET, YOUTUBE_REFRESH_TOKEN">>)
    ELSE IF ~world.exists THEN ErrorResult(<<"Video file not found: ">> \o video_path)
    ELSE IF world.execute = "raises"
         THEN ErrorResult(<<"Error uploading to YouTube: ", "quotaExceeded">>)
    ELSE ("status" :> "success")
         @@ ("message" :> <<"Video uploaded successfully!">>)
         @@ ("video_id" :> world.id)
         @@ ("video_url" :> <<"https://www.youtube.com/watch?v=", world.id>>)
         @@ ("title" :> title)

\* the order of the four steps in create_youtube_short
PipelineOrder == <<"video_processing", "tts_generation", "audio_video_combine", "youtube_upload">>

\* StepAfter in a pipeline that goes from the video straight to the combination
StepAfter_SkipsTts(step) ==
    CASE step = "video_processing" -> "audio_video_combine"
      [] step = "tts_generation" -> "audio_video_combine"
      [] step = "audio_video_combine" -> "youtube_upload"

\* the step that follows a step that succeeded
StepAfter(step) ==
    CASE step = "video_processing" -> "tts_generation"
      [] step = "tts_generation" -> "audio_video_combine"
      [] step = "audio_video_combine" -> "youtube_upload"

\* AppendStep that appends nothing
AppendStep_Dropped(res, step, step_result) == res

\* results["pipeline_steps"].append({"step": step, "result": step_result})
AppendStep(res, step, step_result) ==
    "pipeline_steps" :>
        Append(res["pipeline_steps"], ("step" :> step) @@ ("result" :> step_result))

\* if step_result["status"] == "error"
Failed(step_result) == step_result["status"] = "error"

\* the record returned when one of the first three steps failed
StepFailed(label, step_result, res) ==
    ("status" :> "error")
    @@ ("error_message" :> <<label>> \o step_result["error_message"])
    @@ ("pipeline_results" :> res)

\* UploadFailed that reports an error
UploadFailed_AsError(upload_result, final, res) ==
    StepFailed("YouTube upload failed: ", upload_result, res)

\* the record returned when the upload failed
UploadFailed(upload_result, final, res) ==
    ("status" :> "partial_success")
    @@ ("message" :> <<"YouTube Short created but upload failed: ">>
                     \o upload_result["error_message"])
    @@ ("final_video_path" :> final)
    @@ ("pipeline_results" :> res)

\* the record returned when the four steps succeeded
Uploaded(upload_result, final, res) ==
    ("status" :> "success")
    @@ ("message" :> <<"YouTube Short created and uploaded successfully!">>)
    @@ ("video_url" :> upload_result["video_url"])
    @@ ("video_id" :> upload_result["video_id"])
    @@ ("final_video_path" :> final)
    @@ ("pipeline_results" :> res)

\* the record the except clause returns; pipeline_results is the list here
PipelineError(text, res) ==
    ("status" :> "error")
    @@ ("error_message" :> <<"Pipeline error: ", text>>)
    @@ ("pipeline_results" :>
            IF "pipeline_steps" \in DOMAIN res THEN res["pipeline_steps"] ELSE <<>>)

\* the arguments of a call
ShortArgs ==
    [video_path : {"background.mp4"}, transcript : {<<"H", "i", "!">>},
     title : {"Daily tip", "Launch day"}, description : {""},
     voice : {"alloy", "nova"}, tags : {PyNone, PyList(<<PyStr(<<"shorts">>)>>)}]

\* create_youtube_short(...): results = {"pipeline_steps": []}
CreateYoutubeShort ==
    /\ short_pc = "idle"
    /\ \E args \in ShortArgs : short_args' = args
    /\ results' = ("pipeline_steps" :> <<>>)
    /\ short_pc' = PipelineOrder[1]
    /\ UNCHANGED <<processed_video, audio_file, final_video, invoked, short_result, notShort>>

\* Step 1: process_background_video, its result appended, the early return
VideoProcessing ==
    /\ short_pc = "video_processing"
    /\ \E world \in ProcessWorlds :
         LET video_result == process_background_video(short_args.video_path, ShortDuration, world)
             appended == AppendStep(results, "video_processing", video_result)
         IN  /\ invoked' = Append(invoked, <<"video_processing", video_result["status"]>>)
             /\ results' = appended
             /\ IF Failed(video_result)
                THEN /\ short_result' = StepFailed("Video processing failed: ", video_result, appended)
                     /\ short_pc' = "done"
                     /\ UNCHANGED processed_video
                ELSE /\ processed_video' = video_result["output_path"]
                     /\ short_pc' = StepAfter("video_processing")
                     /\ UNCHANGED short_result
    /\ UNCHANGED <<short_args, audio_file, final_video, notShort>>

\* Step 2: generate_tts_audio
TtsGeneration ==
    /\ short_pc = "tts_generation"
    /\ \E world \in TtsWorlds :
         LET audio_result == generate_tts_audio(short_args.transcript, short_args.voice, world)
             appended == AppendStep(results, "tts_generation", audio_result)
         IN  /\ invoked' = Append(invoked, <<"tts_generation", audio_result["status"]>>)
             /\ results' = appended
             /\ IF Failed(audio_result)
                THEN /\ short_result' = StepFailed("TTS generation failed: ", audio_result, appended)
                     /\ short_pc' = "done"
                     /\ UNCHANGED audio_file
                ELSE /\ audio_file' = audio_result["audio_path"]
                     /\ short_pc' = StepAfter("tts_generation")
                     /\ UNCHANGED short_result
    /\ UNCHANGED <<short_args, processed_video, final_video, notShort>>

\* Step 3: combine_audio_video
AudioVideoCombine ==
    /\ short_pc = "audio_video_combine"
    /\ \E world \in CombineWorlds :
         LET combine_result ==
                 combine_audio_video(processed_video, audio_file, short_args.title, world)
             appended == AppendStep(results, "audio_video_combine", combine_result)
         IN  /\ invoked' = Append(invoked, <<"audio_video_combine", combine_result["status"]>>)
             /\ results' = appended
             /\ IF Failed(combine_result)
                THEN /\ short_result' =
                          StepFailed("Audio/video combination failed: ", combine_result, appended)
                     /\ short_pc' = "done"
                     /\ UNCHANGED final_video
                ELSE /\ final_video' = combine_result["output_path"]
                     /\ short_pc' = StepAfter("audio_video_combine")
                     /\ UNCHANGED short_result
    /\ UNCHANGED <<short_args, processed_video, audio_file, notShort>>

\* Step 4: upload_to_youtube, then partial_success or success
YoutubeUpload ==
    /\ short_pc = "youtube_upload"
    /\ \E world \in UploadWorlds :
         LET upload_result ==
                 upload_to_youtube(final_video, short_args.title, short_args.description,
                                   short_args.tags, world)
             appended == AppendStep(results, "youtube_upload", upload_result)
         IN  /\ invoked' = Append(invoked, <<"youtube_upload", upload_result["status"]>>)
             /\ results' = appended
             /\ short_result' = IF Failed(upload_result)
                                THEN UploadFailed(upload_result, final_video, appended)
                                ELSE Uploaded(upload_result, final_video, appended)
             /\ short_pc' = "done"
    /\ UNCHANGED <<short_args, processed_video, audio_file, final_video, notShort>>

\* the print before a step raises (stdout is closed, or cannot encode the
\* emoji): the except clause returns the pipeline error
PrintRaises ==
    /\ short_pc \in {PipelineOrder[i] : i \in 1..Len(PipelineOrder)}
    /\ \E text \in {"'charmap' codec can't encode character", "[Errno 32] Broken pipe"} :
         short_result' = PipelineError(text, results)
    /\ short_pc' = "done"
    /\ UNCHANGED <<short_args, results, processed_video, audio_file, final_video, invoked,
                   notShort>>

\* the caller has the record; the next call starts afresh
NextShort ==
    /\ short_pc = "done"
    /\ short_pc' = "idle"
    /\ short_args' = <<>>
    /\ results' = <<>>
    /\ processed_video' = <<>>
    /\ audio_file' = <<>>
    /\ final_video' = <<>>
    /\ invoked' = <<>>
    /\ short_result' = NoResult
    /\ UNCHANGED notShort

ShortInit == ShortIdle /\ ExtractorIdle /\ ConcurrentIdle /\ TelegramIdle /\ EmailIdle

ShortNext ==
    \/ CreateYoutubeShort
    \/ VideoProcessing
    \/ TtsGeneration
    \/ AudioVideoCombine
    \/ YoutubeUpload
    \/ PrintRaises
    \/ NextShort

SpecShort == ShortInit /\ [][ShortNext]_vars

\* create_youtube_short has returned
ShortDone == short_pc = "done"
\* ... from the except clause
ShortRaised == ShortDone /\ "final_video_path" \notin DOMAIN short_result
                         /\ short_result["error_message"][1] = "Pipeline error: "
\* ... from one of the five return statements of the try block
ShortReturned == ShortDone /\ ~ShortRaised

\* the step was invoked and returned this status
StepGave(i, status) == Len(invoked) >= i /\ invoked[i] = <<PipelineOrder[i], status>>

(***************************************************************************)
(* C17                                                                     *)
(***************************************************************************)
\* C17: the steps invoked so far are the first steps of video_processing,
\* tts_generation, audio_video_combine, youtube_upload, in that order, each
\* once; every step but the last invoked returned success, so that a step
\* is invoked only after all earlier ones succeeded and none after an error.
C17_StepsInOrderUntilFailure ==
    /\ Len(invoked) <= Len(PipelineOrder)
    /\ \A i \in 1..Len(invoked) :
         /\ invoked[i][1] = PipelineOrder[i]
         /\ i < Len(invoked) => invoked[i][2] = "success"

\* every step fires only from a state in which no step has failed, and a
\* call that has returned invokes nothing more
C17_NoStepAfterError ==
    [][invoked' # invoked /\ invoked' # <<>> =>
          /\ ~ShortDone
          /\ \A i \in 1..Len(invoked) : invoked[i][2] = "success"]_vars

\* the TTS step failed after the video step succeeded: the call has returned
\* with two steps invoked
C17_Witness ==
    /\ ShortDone /\ Len(invoked) = 2
    /\ StepGave(1, "success") /\ StepGave(2, "error")
    /\ short_result["status"] = "error"

(***************************************************************************)
(* C18                                                                     *)
(***************************************************************************)
\* C18: in a record returned by a return statement of the try block,
\* pipeline_results.pipeline_steps is non-empty, holds one entry for each step
\* invoked, in the order of invocation, which is the order of the pipeline;
\* every entry but the last holds a success, and unless the overall status
\* is success the last entry holds the error of the step that failed.
C18_PipelineStepsRecordTheRun ==
    ShortReturned =>
        LET steps == short_result["pipeline_results"]["pipeline_steps"]
        IN  /\ Len(steps) >= 1 /\ Len(steps) <= Len(PipelineOrder)
            /\ Len(steps) = Len(invoked)
            /\ \A i \in 1..Len(steps) :
                 /\ steps[i]["step"] = PipelineOrder[i]
                 /\ steps[i]["step"] = invoked[i][1]
                 /\ steps[i]["result"]["status"] = invoked[i][2]
                 /\ i < Len(steps) => steps[i]["result"]["status"] = "success"
            /\ short_result["status"] # "success" =>
                 steps[Len(steps)]["result"]["status"] = "error"

\* the combination failed: three entries, the third holds the error
C18_Witness ==
    /\ ShortReturned /\ short_result["status"] = "error"
    /\ Len(short_result["pipeline_results"]["pipeline_steps"]) = 3
    /\ short_result["pipeline_results"]["pipeline_steps"][3]["step"] = "audio_video_combine"
    /\ short_result["pipeline_results"]["pipeline_steps"][3]["result"]["status"] = "error"
    /\ short_result["pipeline_results"]["pipeline_steps"][2]["result"]["status"] = "success"

(***************************************************************************)
(* C19                                                                     *)
(***************************************************************************)
\* the first n steps were invoked and succeeded
Succeeded(n) == \A i \in 1..n : StepGave(i, "success")
\* one of the first three steps failed
EarlyStepFailed == \E i \in 1..3 : StepGave(i, "error")

\* the status and the keys the step outcomes call for
StatusFollowsSteps ==
    /\ short_result["status"] = "success" <=> Succeeded(4)
    /\ short_result["status"] = "error" <=> EarlyStepFailed
    /\ short_result["status"] = "partial_success" <=> (Succeeded(3) /\ StepGave(4, "error"))
    /\ short_result["status"] = "partial_success" =>
          /\ "final_video_path" \in DOMAIN short_result
          /\ short_result["final_video_path"] = final_video
          /\ "video_url" \notin DOMAIN short_result

\* C19 as claimed: whenever create_youtube_short has returned, the status is
\* success iff the four steps succeeded, error iff one of the first three
\* failed, partial_success (with final_video_path, without video_url) iff the
\* first three succeeded and the upload failed.
C19_StatusFollowsSteps == ShortDone => StatusFollowsSteps

\* C19, amended: that holds of every record returned by a return statement
\* of the try block; a call that ends in the except clause returns status
\* error whatever the steps invoked so far returned.
C19_StatusFollowsStepsUnlessRaised ==
    /\ ShortReturned => StatusFollowsSteps
    /\ ShortRaised => short_result["status"] = "error"

\* the upload failed after three successes: partial_success with the path of
\* the final video and no video_url
C19_Witness ==
    /\ ShortReturned /\ Succeeded(3) /\ StepGave(4, "error")
    /\ short_result["status"] = "partial_success"
    /\ short_result["final_video_path"] = final_video
    /\ "video_url" \notin DOMAIN short_result

(***************************************************************************)
(* send_to_telegram (src/email_summary_agent/agent.py).  What              *)
(* requests.post does is chosen anew for each request: it returns a        *)
(* response with a status code and a text, or it raises.                   *)
(***************************************************************************)
HttpOk == 200

\* the text of the fallback request (the emoji written by its short name)
simple_message ==
    <<":e-mail: You have unread emails in your inbox!\n\nCheck your email client for details.">>

\* the summaries handed to send_to_telegram
Messages ==
    {<<":e-mail: No unread emails found!">>,
     <<":e-mail: EMAIL SUMMARY (2 unread emails)\n\n", "1. From: alice", "2. From: bob">>,
     <<>>}

\* what os.getenv returns for a variable: None when unset, or its value
EnvValues(value) == {PyNone, PyStr(<<>>), PyStr(<<value>>)}

\* what requests.post does
PostOutcomes ==
    {[raises |-> TRUE, status_code |-> 0, text |-> "Connection aborted."],
     [raises |-> FALSE, status_code |-> 200, text |-> "{\"ok\":true}"],
     [raises |-> FALSE, status_code |-> 400, text |-> "{\"ok\":false,\"description\":\"Bad Request: message is too long\"}"],
     [raises |-> FALSE, status_code |-> 429, text |-> "{\"ok\":false,\"description\":\"Too Many Requests\"}"],
     [raises |-> FALSE, status_code |-> 401, text |-> "{\"ok\":false,\"description\":\"Unauthorized\"}"],
     [raises |-> FALSE, status_code |-> 201, text |-> ""],
     [raises |-> TRUE, status_code |-> 0, text |-> "Read timed out."]}

\* StatusOk that takes no response for a success
StatusOk_Never(resp) == FALSE

\* response.status_code == 200
StatusOk(resp) == resp.status_code = HttpOk

\* Configured that looks at the bot token only
Configured_TokenOnly(token, chat) == Truthy(token)

\* not (not bot_token or not chat_id)
Configured(token, chat) == Truthy(token) /\ Truthy(chat)

TelegramSuccess(text) == ("status" :> "success") @@ ("message" :> <<text>>)
TelegramError(error_message) == ("status" :> "error") @@ ("error_message" :> error_message)

\* send_to_telegram(message): the two environment variables are read; without
\* one of them the call returns the error at once
SendToTelegram ==
    /\ telegram_pc = "idle"
    /\ \E text \in Messages, token \in EnvValues("123456:ABC-DEF"), chat \in EnvValues("42") :
         /\ message' = text
         /\ bot_token' = token
         /\ chat_id' = chat
         /\ IF Configured(token, chat)
            THEN telegram_pc' = "post" /\ UNCHANGED telegram_result
            ELSE /\ telegram_pc' = "done"
                 /\ telegram_result' =
                        TelegramError(<<"Telegram bot token or chat ID not configured.">>)
    /\ UNCHANGED <<telegram_response, posts, notTelegram>>

\* response = requests.post(url, data=data), with the message as it is
FirstPost ==
    /\ telegram_pc = "post"
    /\ \E outcome \in PostOutcomes :
         /\ posts' = Append(posts, [text |-> message, outcome |-> outcome])
         /\ IF outcome.raises
            THEN /\ telegram_result' =
                        TelegramError(<<"Error sending to Telegram: ", outcome.text>>)
                 /\ telegram_pc' = "done"
                 /\ UNCHANGED telegram_response
            ELSE /\ telegram_response' = Returned(outcome)
                 /\ IF StatusOk(outcome)
                    THEN /\ telegram_result' =
                                TelegramSuccess("Email summary sent to Telegram successfully!")
                         /\ telegram_pc' = "done"
                    ELSE telegram_pc' = "fallback" /\ UNCHANGED telegram_result
    /\ UNCHANGED <<message, bot_token, chat_id, notTelegram>>

\* fallback_response = requests.post(url, data=simple_data)
FallbackPost ==
    /\ telegram_pc = "fallback"
    /\ \E outcome \in PostOutcomes :
         /\ posts' = Append(posts, [text |-> simple_message, outcome |-> outcome])
         /\ telegram_result' =
                IF outcome.raises
                THEN TelegramError(<<"Error sending to Telegram: ", outcome.text>>)
                ELSE IF StatusOk(outcome)
                THEN TelegramSuccess("Simplified email notification sent to Telegram successfully!")
                ELSE TelegramError(<<"Failed to send to Telegram: ", telegram_response.value.text>>)
    /\ telegram_pc' = "done"
    /\ UNCHANGED <<message, bot_token, chat_id, telegram_response, notTelegram>>

\* the caller has the record; the next call starts afresh
NextMessage ==
    /\ telegram_pc = "done"
    /\ telegram_pc' = "idle"
    /\ message' = <<>>
    /\ bot_token' = PyNone
    /\ chat_id' = PyNone
    /\ telegram_response' = NoResponse
    /\ posts' = <<>>
    /\ telegram_result' = NoResult
    /\ UNCHANGED notTelegram

TelegramInit == TelegramIdle /\ ExtractorIdle /\ ConcurrentIdle /\ ShortIdle /\ EmailIdle

TelegramNext ==
    \/ SendToTelegram
    \/ FirstPost
    \/ FallbackPost
    \/ NextMessage

SpecTelegram == TelegramInit /\ [][TelegramNext]_vars

(***************************************************************************)
(* C20                                                                     *)
(***************************************************************************)
\* send_to_telegram has returned
TelegramDone == telegram_pc = "done"

\* the i-th request was made and came back with 200
Returned200(i) ==
    Len(posts) >= i /\ ~posts[i].outcome.raises /\ posts[i].outcome.status_code = 200
\* the i-th request was made and came back with another status
ReturnedNon200(i) ==
    Len(posts) >= i /\ ~posts[i].outcome.raises /\ posts[i].outcome.status_code # 200

\* the bot token or the chat id is unset or empty
NotConfigured ==
    bot_token \in {PyNone, PyStr(<<>>)} \/ chat_id \in {PyNone, PyStr(<<>>)}

\* C20: a call makes at most two POST requests: the first carries the
\* message, the second, if any, the simplified message, and it is made only
\* after the first came back with a status other than 200, and then once;
\* the call returns success iff the first or the fallback request came back
\* with 200, and an error without any request when the bot token or the chat
\* id is not configured.
C20_AtMostOneFallback ==
    /\ Len(posts) <= 2
    /\ Len(posts) >= 1 => posts[1].text = message
    /\ Len(posts) = 2 => posts[2].text = simple_message /\ ReturnedNon200(1)
    /\ TelegramDone =>
         /\ ReturnedNon200(1) => Len(posts) = 2
         /\ telegram_result["status"] \in {"success", "error"}
         /\ telegram_result["status"] = "success" <=> (Returned200(1) \/ Returned200(2))
         /\ NotConfigured => telegram_result["status"] = "error" /\ posts = <<>>

\* the message was refused with 400 and the simplified message went through
C20_Witness ==
    /\ TelegramDone /\ Len(posts) = 2
    /\ posts[1].outcome.status_code = 400 /\ Returned200(2)
    /\ posts[2].text = simple_message
    /\ telegram_result["status"] = "success"

\* the chat id is not configured: error, nothing sent
C20_WitnessNotConfigured ==
    /\ TelegramDone /\ Truthy(bot_token) /\ chat_id = PyNone
    /\ posts = <<>> /\ telegram_result["status"] = "error"

(***************************************************************************)
(* check_and_send_email_summary (src/email_summary_agent/agent.py): the    *)
(* unread emails are fetched, summarised and handed to send_to_telegram,   *)
(* whose steps are the actions FirstPost and FallbackPost above.  A text   *)
(* is a sequence of pieces; the characters the summary removes stand as    *)
(* pieces of their own.  A body is held as its first 100 characters (head) *)
(* and what follows them (tail, empty for a body of at most 100).          *)
(***************************************************************************)
\* str(n) for the numbers the summary prints (the fetch is limited to 10 emails)
Str(n) == <<"0", "1", "2", "3", "4", "5", "6", "7", "8", "9", "10">>[n + 1]

InvoiceEmail ==
    [id |-> "18c2f0", sender |-> <<"Alice ", "<", "alice@example.com", ">">>,
     subject |-> <<"[", "Billing", "]", " Invoice ", "*", "overdue", "*">>,
     date |-> "Mon, 1 Jan 2024 09:00:00 +0000",
     body |-> [head |-> <<"Please find the invoice attached.">>, tail |-> <<>>]]

NewsletterEmail ==
    [id |-> "18c2f1", sender |-> <<"news", "_", "letter@example.com">>,
     subject |-> <<"Weekly digest">>,
     date |-> "Mon, 1 Jan 2024 10:30:00 +0000",
     body |-> [head |-> <<"This week: ", "_", "ten", "_", " stories, the first hundred characters of them">>,
               tail |-> <<" and the rest of the newsletter">>]]

\* what get_unread_emails finds: no Gmail service, a request that raises,
\* or the unread messages
GmailWorlds ==
    {[service |-> FALSE, raises |-> FALSE, emails |-> <<>>],
     [service |-> TRUE, raises |-> TRUE, emails |-> <<>>],
     [service |-> TRUE, raises |-> FALSE, emails |-> <<>>],
     [service |-> TRUE, raises |-> FALSE, emails |-> <<InvoiceEmail>>],
     [service |-> TRUE, raises |-> FALSE, emails |-> <<NewsletterEmail, InvoiceEmail>>]}

get_unread_emails(world) ==
    IF ~world.service
    THEN ("status" :> "error")
         @@ ("error_message" :> <<"Failed to authenticate with Gmail. Please check your credentials.">>)
    ELSE IF world.raises
    THEN ("status" :> "error")
         @@ ("error_message" :> <<"Error fetching emails: ", "HttpError 403">>)
    ELSE IF world.emails = <<>>
    THEN ("status" :> "success") @@ ("message" :> <<"No unread emails found.">>)
         @@ ("email_count" :> 0) @@ ("emails" :> <<>>)
    ELSE ("status" :> "success") @@ ("email_count" :> Len(world.emails))
         @@ ("emails" :> world.emails)

\* text.replace(c, '') for each of these characters
Without(text, chars) ==
    LET Kept(piece) == piece \notin chars
    IN  SelectSeq(text, Kept)

\* the lines of one email in the summary
EmailSummary(i, email) ==
    LET subject == Without(email.subject, {"*", "_", "[", "]"})
        sender == Without(email.sender, {"*", "_", "<", ">"})
        body_summary == IF email.body.tail # <<>>
                        THEN email.body.head \o <<"...">>
                        ELSE email.body.head
    IN  <<Str(i), ". ">> \o subject \o <<"\n", "From: ">> \o sender
        \o <<"\n", "Date: ", email.date, "\n", "Preview: ">>
        \o Without(body_summary, {"*", "_", "[", "]"})
        \o <<"\n", "----------------------------------------", "\n\n">>

RECURSIVE EmailSummaries(_, _)
EmailSummaries(emails, i) ==
    IF i > Len(emails) THEN <<>>
    ELSE EmailSummary(i, emails[i]) \o EmailSummaries(emails, i + 1)

\* create_telegram_safe_summary(emails_data), for the dict get_unread_emails returns
create_telegram_safe_summary(emails_data) ==
    IF emails_data["email_count"] = 0
    THEN <<":e-mail: No unread emails found!">>
    ELSE <<":e-mail: EMAIL SUMMARY (", Str(emails_data["email_count"]), " unread emails)\n\n">>
         \o EmailSummaries(emails_data["emails"], 1)

\* the record returned after send_to_telegram returned
EmailSummaryResult(emails, sent) ==
    ("status" :> "success")
    @@ ("message" :> <<"Processed ", Str(emails["email_count"]),
                       " unread emails and sent summary to Telegram.">>)
    @@ ("email_count" :> emails["email_count"])
    @@ ("telegram_status" :> sent["status"])

\* check_and_send_email_summary(): the fetch; its error is returned as it
\* is, otherwise the summary is built
CheckAndSendEmailSummary ==
    /\ email_pc = "idle"
    /\ \E world \in GmailWorlds :
         LET fetched == get_unread_emails(world)
         IN  /\ emails_result' = fetched
             /\ IF fetched["status"] = "error"
                THEN /\ email_result' = fetched
                     /\ email_pc' = "done"
                     /\ UNCHANGED telegram_summary
                ELSE /\ telegram_summary' = create_telegram_safe_summary(fetched)
                     /\ email_pc' = "send"
                     /\ UNCHANGED email_result
    /\ UNCHANGED <<telegramVars, notEmail>>

\* telegram_result = send_to_telegram(telegram_summary): the call is made,
\* the two environment variables are read
SendSummary ==
    /\ email_pc = "send" /\ telegram_pc = "idle"
    /\ \E token \in EnvValues("123456:ABC-DEF"), chat \in EnvValues("42") :
         /\ message' = telegram_summary
         /\ bot_token' = token
         /\ chat_id' = chat
         /\ IF Configured(token, chat)
            THEN telegram_pc' = "post" /\ UNCHANGED telegram_result
            ELSE /\ telegram_pc' = "done"
                 /\ telegram_result' =
                        TelegramError(<<"Telegram bot token or chat ID not configured.">>)
    /\ email_pc' = "sending"
    /\ UNCHANGED <<telegram_response, posts, emails_result, telegram_summary, email_result,
                   notEmail>>

\* send_to_telegram has returned: the record is built and returned
EmailReturn ==
    /\ email_pc = "sending" /\ telegram_pc = "done"
    /\ email_result' = EmailSummaryResult(emails_result, telegram_result)
    /\ email_pc' = "done"
    /\ UNCHANGED <<emails_result, telegram_summary, telegramVars, notEmail>>

\* the caller has the record; the next call starts afresh
NextCheck ==
    /\ email_pc = "done"
    /\ email_pc' = "idle"
    /\ emails_result' = NoResult
    /\ telegram_summary' = <<>>
    /\ email_result' = NoResult
    /\ telegram_pc' = "idle"
    /\ message' = <<>>
    /\ bot_token' = PyNone
    /\ chat_id' = PyNone
    /\ telegram_response' = NoResponse
    /\ posts' = <<>>
    /\ telegram_result' = NoResult
    /\ UNCHANGED notEmail

EmailInit == EmailIdle /\ TelegramIdle /\ ExtractorIdle /\ ConcurrentIdle /\ ShortIdle

EmailNext ==
    \/ CheckAndSendEmailSummary
    \/ SendSummary
    \/ FirstPost
    \/ FallbackPost
    \/ EmailReturn
    \/ NextCheck

SpecEmail == EmailInit /\ [][EmailNext]_vars

(***************************************************************************)
(* C21                                                                     *)
(***************************************************************************)
\* check_and_send_email_summary has returned
EmailDone == email_pc = "done"
\* send_to_telegram was called and has returned
SendReturned == telegram_pc = "done"

\* C21 as claimed: the status returned is success only when the fetch and
\* the Telegram send both succeeded, and a send that returned status error
\* makes the status returned error.
C21_SuccessOnlyWhenDelivered ==
    EmailDone =>
        /\ email_result["status"] = "success" =>
              /\ emails_result["status"] = "success"
              /\ SendReturned /\ telegram_result["status"] = "success"
        /\ (SendReturned /\ telegram_result["status"] = "error") =>
              email_result["status"] = "error"

\* what the code does: the status is success whenever the fetch succeeded,
\* and the outcome of the send is only reported in telegram_status
C21_SuccessWheneverFetched ==
    EmailDone =>
        /\ email_result["status"] = emails_result["status"]
        /\ email_result["status"] = "success" =>
              /\ SendReturned
              /\ email_result["telegram_status"] = telegram_result["status"]

\* both requests were refused and the call still returned success
C21_UndeliveredSuccess ==
    /\ EmailDone /\ Len(posts) = 2 /\ ReturnedNon200(1) /\ ReturnedNon200(2)
    /\ telegram_result["status"] = "error"
    /\ email_result["status"] = "success"
    /\ email_result["telegram_status"] = "error"

====
